---- MODULE Spec2Model ----
(***************************************************************************)
(* Group-membership lifecycle of the study-group backend.                  *)
(*                                                                         *)
(* The persistent state is the Group collection and the GroupMember        *)
(* collection.  Every request is a process that walks through the awaits   *)
(* of its handler; one step of the model is one database call together     *)
(* with the checks that follow it up to the next call.                     *)
(*                                                                         *)
(* Database semantics (MongoDB multi-document transactions, Mongoose):     *)
(*  - a call made without the session reads the last committed state;      *)
(*  - a transaction's snapshot is taken by its first call that carries     *)
(*    the session, and its later session reads see that snapshot;          *)
(*  - writes of a transaction are buffered and become visible together     *)
(*    at commitTransaction; abortTransaction discards them;                *)
(*  - a transactional write to a document that another open transaction    *)
(*    has written, or that was committed after the writer's snapshot,      *)
(*    fails with WriteConflict (the handlers do not retry);                *)
(*  - document.save() sends $set of the modified paths only, so            *)
(*    currentMemberCount is written as an absolute value.                  *)
(***************************************************************************)
EXTENDS Integers, FiniteSets, Sequences, TLC

\* ------------------------------------------------------------------ bounds
NumUsers == 3
MaxGroups == 2
MaxGroupsConc == 1
MaxCapacity == 3
NumProcs == 2
MaxProcs == 3
\* Messages stored at most; ChatMsgs of them in the runs with the clock.
MaxMsgs == 6
ChatMsgs == 1
MaxEmoji == 2
\* Messages sent in the runs with listings, and the page numbers asked.
ListMsgs == 3
MaxPage == 2
\* Messages sent in the runs with replies.
ReplyMsgs == 3
\* Users who send chat requests in the runs with reactions and read marks.
NumReactors == 2
MaxContent == 2
MaxEdits == 2
\* The clock counts units of five minutes.
MaxTime == 4

\* ------------------------------------------------------- program constants
MIN_CAPACITY == 2
\* const fifteenMinutes = 15 * 60 * 1000, in units of five minutes
fifteenMinutes == 3
\* pinnedCount >= 5
MaxPinned == 5
\* Joi: limit max(100)
LimitMax == 100

Users == 1..NumUsers
GroupIds == 1..MaxGroups
MsgIds == 1..MaxMsgs
Contents == 1..MaxContent
Emojis == 1..MaxEmoji
Reactors == 1..NumReactors
Procs == 1..NumProcs
AllProcs == 1..MaxProcs
Capacities == MIN_CAPACITY..MaxCapacity

PUBLIC == "public"
PRIVATE == "private"
Visibilities == {PUBLIC, PRIVATE}

LEADER == "leader"
ADMIN == "admin"
MEMBER == "member"

ACTIVE == "active"
INACTIVE == "inactive"
BANNED == "banned"

\* Response kinds: the error classes of utils/apiError, "ok", and "Internal"
\* for an error of the persistence layer (WriteConflict, duplicate key, ...).
OK == "ok"
NotFound == "NotFound"
BadRequest == "BadRequest"
Forbidden == "Forbidden"
Conflict == "Conflict"
Internal == "Internal"

\* No join code supplied / stored.
NoCode == 0
\* Join codes a caller may supply: none, or the code of some group.
Codes == {NoCode} \cup GroupIds

VARIABLES groups, members, proc, scen, messages, now

vars == <<groups, members, proc, scen, messages, now>>

\* ---------------------------------------------------------------- documents
NoGroup ==
  [exists |-> FALSE, leader |-> 0, capacity |-> 0, currentMemberCount |-> 0,
   visibility |-> PUBLIC, joinCode |-> NoCode, isActive |-> FALSE]

NoRow == [role |-> "none", status |-> "none"]

\* deletedAt: { type: Date, default: null }
NoDate == -1

NoMessage ==
  [exists |-> FALSE, groupId |-> 0, sender |-> 0, content |-> 0,
   isEdited |-> FALSE, editHistory |-> <<>>, isDeleted |-> FALSE,
   deletedAt |-> NoDate, deletedBy |-> 0, isPinned |-> FALSE,
   createdAt |-> 0, replyTo |-> 0,
   reactions |-> <<>>, readBy |-> <<>>]

NewMemberRow == [role |-> MEMBER, status |-> ACTIVE]

LeaderRow == [role |-> LEADER, status |-> ACTIVE]

\* groupSchema.pre('save'): a private group without a join code gets a fresh
\* one.  The random 8-character code is modelled as a value unique to the
\* group (its id), so the unique index on joinCode never rejects it.
PreSaveJoinCode(g, visibility, joinCode) ==
  IF visibility = PRIVATE /\ joinCode = NoCode THEN g ELSE joinCode

Max(a, b) == IF a >= b THEN a ELSE b

ActiveCount(g) == Cardinality({u \in Users : members[g][u].status = ACTIVE})

\* ---------------------------------------------------------------- processes
Idle ==
  [op |-> "none", pc |-> "idle", g |-> 0, u |-> 0, t |-> 0, code |-> NoCode,
   cap |-> 0, vis |-> "none", cnt |-> 0, rcap |-> 0, rvis |-> "none",
   rcode |-> NoCode, codeOk |-> FALSE, mw |-> "none",
   act |-> FALSE, snap |-> FALSE, gStale |-> FALSE, mStale |-> "ok",
   rows |-> {}, m |-> 0, txt |-> 0, emoji |-> 0, replyTo |-> 0,
   doc |-> NoMessage, vStale |-> FALSE, page |-> 0, limit |-> 0,
   before |-> 0, after |-> 0, list |-> <<>>, quoted |-> <<>>, total |-> 0,
   at |-> "none", res |-> "none"]

\* The request has been answered: who asked what (with the visibility filter
\* of a listing, the emoji of a reaction, the replyTo of a message), the step
\* that answered (at) and the response kind.  A listing adds what it
\* returns (list, quoted, total) to this record.
Done(r, kind) ==
  [Idle EXCEPT !.op = r.op, !.pc = "done", !.g = r.g, !.u = r.u, !.t = r.t,
               !.m = r.m, !.emoji = r.emoji, !.replyTo = r.replyTo,
               !.txt = r.txt, !.page = r.page, !.limit = r.limit,
               !.before = r.before, !.after = r.after,
               !.at = r.pc, !.res = kind,
               !.vis = IF r.op \in {"list", "search"} THEN r.vis ELSE "none"]

IsIdle(p) == proc[p].pc = "idle"

InFlight(p) == proc[p].pc \notin {"idle", "done"}

AllIdle == \A p \in AllProcs : IsIdle(p)

Quiescent == \A p \in AllProcs : ~InFlight(p)

JoinOps == {"join", "mjoin", "add"}

LeaveOps == {"leave", "mleave", "remove"}

MemberOps == JoinOps \cup LeaveOps

\* Faulty variant of NewCount: a leave writes the count back undecremented.
NewCountNoDecrement(r) ==
  IF r.op \in JoinOps THEN r.cnt + 1 ELSE r.cnt

\* The value the handler assigns to group.currentMemberCount before
\* group.save(): read value + 1, or Math.max(0, read value - 1).
NewCount(r) ==
  IF r.op \in JoinOps THEN r.cnt + 1 ELSE Max(0, r.cnt - 1)

\* Documents a process has written in its open transaction (it holds their
\* write locks until it commits or aborts).
HoldsMember(p, g, u) ==
  /\ proc[p].g = g
  /\ \/ /\ proc[p].op \in MemberOps
        /\ proc[p].pc \in {"wGrp", "commit"}
        /\ proc[p].t = u
        /\ proc[p].mw \in {"create", "activate", "delete"}
     \/ /\ proc[p].op = "delete"
        /\ proc[p].pc = "commit"
        /\ u \in proc[p].rows

HoldsGroup(p, g) ==
  /\ proc[p].g = g
  /\ \/ /\ proc[p].op \in MemberOps
        /\ proc[p].pc = "commit"
        /\ NewCount(proc[p]) # proc[p].cnt
     \/ /\ proc[p].op = "delete"
        /\ proc[p].pc \in {"dMany", "commit"}
        /\ proc[p].act

MemberLocked(p, g, u) == \E q \in AllProcs \ {p} : HoldsMember(q, g, u)

GroupLocked(p, g) == \E q \in AllProcs \ {p} : HoldsGroup(q, g)

\* The _id of the next group document.
FreshGroup ==
  IF \A g \in GroupIds : groups[g].exists THEN 0
  ELSE CHOOSE g \in GroupIds :
         ~groups[g].exists /\ \A h \in GroupIds : h < g => groups[h].exists

NumGroups == Cardinality({g \in GroupIds : groups[g].exists})

Creating == Cardinality({p \in AllProcs : proc[p].op = "create" /\ InFlight(p)})

\* ------------------------------------------------------------- transactions
\* Faulty variant of PendingMembers: a leave marks the row INACTIVE instead of
\* deleting it.
PendingMembersSoftDelete(p) ==
  LET r == proc[p] IN
  CASE r.op \in MemberOps /\ r.mw = "create" ->
         [members EXCEPT ![r.g][r.t] = NewMemberRow]
    [] r.op \in MemberOps /\ r.mw = "activate" ->
         [members EXCEPT ![r.g][r.t].status = ACTIVE]
    [] r.op \in MemberOps /\ r.mw = "delete" ->
         [members EXCEPT ![r.g][r.t].status = INACTIVE]
    [] r.op = "delete" ->
         [members EXCEPT ![r.g] =
            [u \in Users |-> IF u \in r.rows
                             THEN [members[r.g][u] EXCEPT !.status = INACTIVE]
                             ELSE members[r.g][u]]]
    [] r.op = "create" ->
         [members EXCEPT ![FreshGroup][r.u] = LeaderRow]
    [] OTHER -> members

\* The member rows and the group documents as they are once process p's
\* buffered writes are applied.
PendingMembers(p) ==
  LET r == proc[p] IN
  CASE r.op \in MemberOps /\ r.mw = "create" ->
         [members EXCEPT ![r.g][r.t] = NewMemberRow]
    [] r.op \in MemberOps /\ r.mw = "activate" ->
         [members EXCEPT ![r.g][r.t].status = ACTIVE]
    [] r.op \in MemberOps /\ r.mw = "delete" ->
         [members EXCEPT ![r.g][r.t] = NoRow]
    [] r.op = "delete" ->
         [members EXCEPT ![r.g] =
            [u \in Users |-> IF u \in r.rows
                             THEN [members[r.g][u] EXCEPT !.status = INACTIVE]
                             ELSE members[r.g][u]]]
    [] r.op = "create" ->
         [members EXCEPT ![FreshGroup][r.u] = LeaderRow]
    [] OTHER -> members

PendingGroups(p) ==
  LET r == proc[p] IN
  CASE r.op \in MemberOps ->
         [groups EXCEPT ![r.g].currentMemberCount = NewCount(r)]
    [] r.op = "delete" /\ r.act ->
         [groups EXCEPT ![r.g].isActive = FALSE]
    [] r.op = "create" ->
         [groups EXCEPT ![FreshGroup] =
            [exists |-> TRUE, leader |-> r.u, capacity |-> r.cap,
             currentMemberCount |-> 1, visibility |-> r.vis,
             joinCode |-> PreSaveJoinCode(FreshGroup, r.vis, NoCode),
             isActive |-> TRUE]]
    [] OTHER -> groups

\* The member rows and whether the group document process p's transaction
\* writes (save() of a document with no modified path sends nothing).
WrittenRows(p) ==
  LET r == proc[p] IN
  CASE r.op \in MemberOps /\ r.mw \in {"create", "activate", "delete"} -> {r.t}
    [] r.op = "delete" -> r.rows
    [] r.op = "create" -> {r.u}
    [] OTHER -> {}

WroteGroup(p) ==
  LET r == proc[p] IN
  CASE r.op \in MemberOps -> NewCount(r) # r.cnt
    [] r.op = "delete" -> r.act
    [] r.op = "create" -> TRUE
    [] OTHER -> FALSE

\* The member rows process q has read or is about to write.
Refs(q) == IF proc[q].op = "delete" THEN proc[q].rows ELSE {proc[q].t}

\* What a commit (of a transaction, or of updateGroup's plain save) that
\* changed group g's document (wroteG) and the member rows ms of g does to
\* another process q: documents q read in its snapshot become stale, and a
\* row q holds by _id and that was deleted is gone.
Touched(q, g, wroteG, ms, deleted) ==
  LET r == proc[q] IN
  IF r.pc \in {"idle", "done"} \/ r.g # g THEN r
  ELSE [r EXCEPT
         !.gStale = @ \/ (r.snap /\ wroteG),
         !.mStale =
            IF r.snap /\ Refs(q) \cap ms # {} THEN "conflict"
            ELSE IF ~r.snap /\ r.pc = "wMem" /\ r.mw \in {"activate", "delete"}
                    /\ r.t \in deleted THEN "gone"
            ELSE @]

\* session.commitTransaction(): both writes become visible in one step.
CommitTransaction(p) ==
  LET g == proc[p].g
      ms == WrittenRows(p)
      del == {u \in ms : PendingMembers(p)[g][u] = NoRow}
      wroteG == WroteGroup(p)
  IN /\ members' = PendingMembers(p)
     /\ groups' = PendingGroups(p)
     /\ proc' = [q \in AllProcs |->
                   IF q = p
                   THEN Done([proc[p] EXCEPT
                                !.g = IF @ = 0 THEN FreshGroup ELSE @], OK)
                   ELSE Touched(q, g, wroteG, ms, del)]

\* Faulty variant of AbortTransaction: the membership write was made outside
\* the transaction, so it stays when the catch block runs.
AbortKeepsMemberWrite(p) ==
  /\ members' = IF proc[p].pc \in {"wGrp", "commit"} THEN PendingMembers(p)
                ELSE members
  /\ groups' = groups

\* session.abortTransaction() in the catch block: the buffered writes are
\* discarded.
AbortTransaction(p) ==
  /\ members' = members
  /\ groups' = groups

\* catch (error) { await session.abortTransaction(); throw error; }
Throw(p, kind) ==
  /\ AbortTransaction(p)
  /\ proc' = [proc EXCEPT ![p] = Done(proc[p], kind)]

Goto(p, r) ==
  /\ proc' = [proc EXCEPT ![p] = r]
  /\ UNCHANGED <<groups, members>>

Step(p, r, pc) == Goto(p, [r EXCEPT !.pc = pc])

\* ------------------------------------------------------------- route guards
\* Each guard answers "next" or the error it passes to next(error).

\* groupAccess.middleware isNotMember
IsNotMemberGA(g, u) ==
  CASE members[g][u].status = ACTIVE -> Forbidden
    [] members[g][u].status = BANNED -> Forbidden
    [] OTHER -> "next"

\* permission.middleware isNotMember
IsNotMemberPM(g, u) ==
  CASE members[g][u].status = ACTIVE -> Conflict
    [] members[g][u].status = BANNED -> Forbidden
    [] OTHER -> "next"

\* groupAccess.middleware isGroupNotFull
IsGroupNotFull(g) ==
  CASE ~groups[g].exists -> NotFound
    [] groups[g].currentMemberCount >= groups[g].capacity -> Forbidden
    [] OTHER -> "next"

\* permission.middleware checkGroupCapacity
CheckGroupCapacity(g) ==
  CASE ~groups[g].exists -> NotFound
    [] groups[g].currentMemberCount >= groups[g].capacity -> Forbidden
    [] OTHER -> "next"

\* groupAccess.middleware isMember
IsMemberGA(g, u) ==
  CASE ~groups[g].exists -> NotFound
    [] members[g][u].status # ACTIVE -> Forbidden
    [] OTHER -> "next"

\* groupAccess.middleware isLeader
IsLeaderGA(g, u) ==
  CASE ~groups[g].exists -> NotFound
    [] groups[g].leader # u -> Forbidden
    [] OTHER -> "next"

\* Faulty variant of IsLeaderOrAdminPM: any ACTIVE membership is accepted.
IsLeaderOrAdminAnyRole(g, u) ==
  CASE ~groups[g].exists -> NotFound
    [] groups[g].leader = u -> "next"
    [] members[g][u].status = ACTIVE -> "next"
    [] OTHER -> Forbidden

\* permission.middleware isLeaderOrAdmin
IsLeaderOrAdminPM(g, u) ==
  CASE ~groups[g].exists -> NotFound
    [] groups[g].leader = u -> "next"
    [] members[g][u].role = ADMIN /\ members[g][u].status = ACTIVE -> "next"
    [] OTHER -> Forbidden

\* groupAccess isLeaderOrAdmin: role: { $in: [leader, admin] }
IsLeaderOrAdminGA(g, u) ==
  CASE ~groups[g].exists -> NotFound
    [] groups[g].leader = u -> "next"
    [] members[g][u].role \in {LEADER, ADMIN} /\ members[g][u].status = ACTIVE
         -> "next"
    [] OTHER -> Forbidden

\* The first step of each handler, and the guards its route puts before it
\* (routes/group.routes.ts, routes/member.routes.ts).
HandlerPc(op) ==
  CASE op = "create" -> "cGrp"
    [] op = "update" -> "uGrp"
    [] op = "delete" -> "dGrp"
    [] op = "join" -> "jGrp"
    [] op = "leave" -> "lGrp"
    [] op \in {"mjoin", "add", "mleave", "remove"} -> "tRead"
    [] op = "list" -> "rList"
    [] op = "get" -> "rGet"
    [] op = "members" -> "rMembers"
    [] op = "search" -> "rSearch"
    [] op = "send" -> "mSend"
    [] op = "edit" -> "mEdit"
    [] op = "softDelete" -> "mDelete"
    [] op = "pin" -> "mPin"
    [] op = "react" -> "mReact"
    [] op = "read" -> "mRead"
    [] op = "messages" -> "mList"
    [] op = "pinned" -> "mPinned"
    [] op = "msearch" -> "mSearch"

RouteGuards(op) ==
  CASE op = "create" -> <<>>
    [] op = "update" -> <<"isLeader">>
    [] op = "delete" -> <<"isLeader">>
    [] op = "join" -> <<"isNotMember", "isGroupNotFull">>
    [] op = "leave" -> <<"isMember">>
    [] op = "mjoin" -> <<"isNotMemberPM", "checkGroupCapacity">>
    [] op = "mleave" -> <<"isMember">>
    [] op = "add" -> <<"isLeaderOrAdmin", "checkGroupCapacity">>
    [] op = "remove" -> <<"isLeaderOrAdmin">>
    [] op \in {"send", "messages", "pinned", "msearch"} -> <<"isMember">>
    [] op \in {"edit", "softDelete", "pin", "react", "read"} -> <<>>

EntryPc(op, route) ==
  IF route /\ RouteGuards(op) # <<>> THEN RouteGuards(op)[1] ELSE HandlerPc(op)

\* The step after guard pc of op's route.
AfterGuard(op, pc) ==
  LET gs == RouteGuards(op)
      i == CHOOSE k \in 1..Len(gs) : gs[k] = pc
  IN IF i < Len(gs) THEN gs[i + 1] ELSE HandlerPc(op)

GuardVerdict(pc, g, u) ==
  CASE pc = "isNotMember" -> IsNotMemberGA(g, u)
    [] pc = "isNotMemberPM" -> IsNotMemberPM(g, u)
    [] pc = "isGroupNotFull" -> IsGroupNotFull(g)
    [] pc = "checkGroupCapacity" -> CheckGroupCapacity(g)
    [] pc = "isMember" -> IsMemberGA(g, u)
    [] pc = "isLeader" -> IsLeaderGA(g, u)
    [] pc = "isLeaderOrAdmin" -> IsLeaderOrAdminPM(g, u)

GuardPcs ==
  {"isNotMember", "isNotMemberPM", "isGroupNotFull", "checkGroupCapacity",
   "isMember", "isLeader", "isLeaderOrAdmin"}

\* A guard runs: next() moves on to the next middleware, next(error) ends the
\* request with that error.
Guard(p) ==
  LET r == proc[p]
      v == GuardVerdict(r.pc, r.g, r.u)
  IN /\ r.pc \in GuardPcs
     /\ IF v = "next"
        THEN Step(p, r, AfterGuard(r.op, r.pc))
        ELSE Goto(p, Done(r, v))

\* ---------------------------------------------------- groupService.joinGroup
\* Faulty variant of AtCapacity: the comparison is strict.
AtCapacityStrict(grp) == grp.currentMemberCount > grp.capacity

\* group.currentMemberCount >= group.capacity
AtCapacity(grp) == grp.currentMemberCount >= grp.capacity

\* joinData.joinCode against the group document read by the handler.
JoinCodeOk(grp, code) ==
  grp.visibility = PRIVATE => (code # NoCode /\ code = grp.joinCode)

\* The write of the membership a join makes for the row it found.
JoinWrite(row) == IF row = NoRow THEN "create" ELSE "activate"

\* Group.findById (no session), the isActive and the capacity check.
JoinReadGroup(p) ==
  LET r == proc[p]
      grp == groups[r.g]
  IN /\ r.op = "join" /\ r.pc = "jGrp"
     /\ IF ~grp.exists \/ ~grp.isActive THEN Throw(p, NotFound)
        ELSE IF AtCapacity(grp) THEN Throw(p, Forbidden)
        ELSE Goto(p, [r EXCEPT !.pc = "jMem", !.cnt = grp.currentMemberCount,
                               !.codeOk = JoinCodeOk(grp, r.code)])

\* GroupMember.findOne (no session), the membership and the join-code check.
JoinReadMember(p) ==
  LET r == proc[p]
      row == members[r.g][r.t]
  IN /\ r.op = "join" /\ r.pc = "jMem"
     /\ IF row.status = ACTIVE THEN Throw(p, Conflict)
        ELSE IF row.status = BANNED THEN Throw(p, Forbidden)
        ELSE IF ~r.codeOk THEN Throw(p, BadRequest)
        ELSE Goto(p, [r EXCEPT !.pc = "wMem", !.mw = JoinWrite(row)])

\* --------------------------------------------------- groupService.leaveGroup
\* Faulty variant of IsGroupLeader: the ObjectId is compared with the string
\* without toString(), which is never equal.
IsGroupLeaderNoToString(grp, u) == FALSE

\* group.leader.toString() === userId
IsGroupLeader(grp, u) == grp.leader = u

LeaveReadGroup(p) ==
  LET r == proc[p]
      grp == groups[r.g]
  IN /\ r.op = "leave" /\ r.pc = "lGrp"
     /\ IF ~grp.exists THEN Throw(p, NotFound)
        ELSE IF IsGroupLeader(grp, r.t) THEN Throw(p, BadRequest)
        ELSE Goto(p, [r EXCEPT !.pc = "lMem", !.cnt = grp.currentMemberCount])

LeaveReadMember(p) ==
  LET r == proc[p]
      row == members[r.g][r.t]
  IN /\ r.op = "leave" /\ r.pc = "lMem"
     /\ IF row.status # ACTIVE THEN Throw(p, NotFound)
        ELSE Goto(p, [r EXCEPT !.pc = "wMem", !.mw = "delete"])

\* ------------------------------------------------------- member.controller
\* joinGroup and addMember: Group.findById and GroupMember.findOne both carry
\* the session, so both read the snapshot taken by the first of them.
\* (addMember's User.findById finds every user of the model, an active one.)
ControllerJoinRead(p) ==
  LET r == proc[p]
      grp == groups[r.g]
      row == members[r.g][r.t]
  IN /\ r.op \in {"mjoin", "add"} /\ r.pc = "tRead"
     /\ IF ~grp.exists \/ ~grp.isActive THEN Throw(p, NotFound)
        ELSE IF AtCapacity(grp) THEN Throw(p, Forbidden)
        ELSE IF row.status = ACTIVE THEN Throw(p, Conflict)
        ELSE IF row.status = BANNED THEN Throw(p, Forbidden)
        ELSE Goto(p, [r EXCEPT !.pc = "wMem", !.cnt = grp.currentMemberCount,
                               !.mw = JoinWrite(row), !.snap = TRUE])

\* leaveGroup and removeMember, likewise inside the session.
ControllerLeaveRead(p) ==
  LET r == proc[p]
      grp == groups[r.g]
      row == members[r.g][r.t]
  IN /\ r.op \in {"mleave", "remove"} /\ r.pc = "tRead"
     /\ IF ~grp.exists THEN Throw(p, NotFound)
        ELSE IF IsGroupLeader(grp, r.t) THEN Throw(p, BadRequest)
        ELSE IF row.status # ACTIVE THEN Throw(p, NotFound)
        ELSE Goto(p, [r EXCEPT !.pc = "wMem", !.cnt = grp.currentMemberCount,
                               !.mw = "delete", !.snap = TRUE])

\* ------------------------------------------- the writes of a membership change
\* existingMember.save / GroupMember.create / GroupMember.findByIdAndDelete,
\* with the session.  It is the transaction's first call when the handler
\* read without the session.
WriteMember(p) ==
  LET r == proc[p]
      row == members[r.g][r.t]
      conflict == MemberLocked(p, r.g, r.t) \/ r.mStale = "conflict"
      next == [r EXCEPT !.pc = "wGrp", !.snap = TRUE, !.mStale = "ok"]
  IN /\ r.op \in MemberOps /\ r.pc = "wMem"
     /\ CASE r.mw = "delete" /\ r.mStale = "gone" ->
               \* findByIdAndDelete finds no document: null, no error
               Goto(p, [next EXCEPT !.mw = "noop"])
          [] r.mw = "activate" /\ r.mStale = "gone" ->
               \* save() of a deleted document: DocumentNotFoundError
               Throw(p, Internal)
          [] r.mw = "create" /\ ~r.snap /\ row # NoRow ->
               \* the unique index {group, user}: duplicate key
               Throw(p, Internal)
          [] OTHER ->
               IF conflict THEN Throw(p, Internal) ELSE Goto(p, next)

\* group.currentMemberCount = ...; group.save({ session })
WriteGroup(p) ==
  LET r == proc[p] IN
  /\ r.op \in MemberOps /\ r.pc = "wGrp"
  /\ IF NewCount(r) # r.cnt /\ (GroupLocked(p, r.g) \/ r.gStale)
     THEN Throw(p, Internal)
     ELSE Step(p, r, "commit")

Commit(p) ==
  /\ proc[p].pc = "commit"
  /\ CommitTransaction(p)

\* --------------------------------------------------- groupService.createGroup
\* Faulty variant of CreateGroupDoc: Group.create is called without the
\* session, so the document is persisted at once.
CreateGroupDocNoSession(p) ==
  /\ proc[p].op = "create" /\ proc[p].pc = "cGrp"
  /\ groups' = PendingGroups(p)
  /\ members' = members
  /\ proc' = [proc EXCEPT ![p] = [proc[p] EXCEPT !.pc = "cMem", !.snap = TRUE]]

\* Group.create([{...groupData, leader, currentMemberCount: 1}], { session })
CreateGroupDoc(p) ==
  /\ proc[p].op = "create" /\ proc[p].pc = "cGrp"
  /\ Goto(p, [proc[p] EXCEPT !.pc = "cMem", !.snap = TRUE])

\* GroupMember.create([{group, user, role: LEADER, status: ACTIVE}], { session })
CreateLeaderRow(p) ==
  /\ proc[p].op = "create" /\ proc[p].pc = "cMem"
  /\ Step(p, proc[p], "commit")

\* --------------------------------------------------- groupService.updateGroup
\* Faulty variant of CapacityBelowCount: the check is missing.
CapacityUnchecked(cap, grp) == FALSE

\* updateData.capacity && updateData.capacity < group.currentMemberCount
CapacityBelowCount(cap, grp) == cap # 0 /\ cap < grp.currentMemberCount

UpdateReadGroup(p) ==
  LET r == proc[p]
      grp == groups[r.g]
  IN /\ r.op = "update" /\ r.pc = "uGrp"
     /\ IF ~grp.exists THEN Throw(p, NotFound)
        ELSE IF grp.leader # r.u THEN Throw(p, Forbidden)
        ELSE IF CapacityBelowCount(r.cap, grp) THEN Throw(p, BadRequest)
        ELSE Goto(p, [r EXCEPT !.pc = "uSave", !.rcap = grp.capacity,
                               !.rvis = grp.visibility, !.rcode = grp.joinCode])

\* Object.assign(group, updateData); group.save(): the paths whose value
\* differs from the loaded document are written, after the pre('save') hook.
\* The save carries no session: it waits for a transaction holding the
\* document.
AssignedVisibility(r) == IF r.vis # "none" THEN r.vis ELSE r.rvis

UpdatedGroup(r, grp) ==
  LET code == PreSaveJoinCode(r.g, AssignedVisibility(r), r.rcode)
  IN [grp EXCEPT
       !.capacity = IF r.cap # 0 /\ r.cap # r.rcap THEN r.cap ELSE @,
       !.visibility = IF r.vis # "none" /\ r.vis # r.rvis THEN r.vis ELSE @,
       !.joinCode = IF code # r.rcode THEN code ELSE @]

UpdateSave(p) ==
  LET r == proc[p]
      new == UpdatedGroup(r, groups[r.g])
      wrote == \/ r.cap # 0 /\ r.cap # r.rcap
               \/ r.vis # "none" /\ r.vis # r.rvis
               \/ PreSaveJoinCode(r.g, AssignedVisibility(r), r.rcode) # r.rcode
  IN /\ r.op = "update" /\ r.pc = "uSave"
     /\ ~GroupLocked(p, r.g)
     /\ groups' = [groups EXCEPT ![r.g] = new]
     /\ members' = members
     /\ proc' = [q \in AllProcs |->
                   IF q = p THEN Done(r, OK) ELSE Touched(q, r.g, wrote, {}, {})]

\* --------------------------------------------------- groupService.deleteGroup
DeleteReadGroup(p) ==
  LET r == proc[p]
      grp == groups[r.g]
  IN /\ r.op = "delete" /\ r.pc = "dGrp"
     /\ IF ~grp.exists THEN Throw(p, NotFound)
        ELSE IF grp.leader # r.u THEN Throw(p, Forbidden)
        ELSE Goto(p, [r EXCEPT !.pc = "dSave", !.act = grp.isActive])

Rows(g) == {u \in Users : members[g][u] # NoRow}

\* group.isActive = false; group.save({ session })
DeleteSave(p) ==
  LET r == proc[p] IN
  /\ r.op = "delete" /\ r.pc = "dSave"
  /\ IF r.act
     THEN IF GroupLocked(p, r.g) THEN Throw(p, Internal)
          ELSE Goto(p, [r EXCEPT !.pc = "dMany", !.snap = TRUE,
                                 !.rows = Rows(r.g)])
     ELSE Step(p, r, "dMany")

\* GroupMember.updateMany({ group }, { status: INACTIVE }, { session }): the
\* rows of the snapshot (timestamps: true makes every match a write).
DeleteUpdateMany(p) ==
  LET r == proc[p]
      rows == IF r.snap THEN r.rows ELSE Rows(r.g)
  IN /\ r.op = "delete" /\ r.pc = "dMany"
     /\ IF r.mStale = "conflict" \/ \E u \in rows : MemberLocked(p, r.g, u)
        THEN Throw(p, Internal)
        ELSE Goto(p, [r EXCEPT !.pc = "commit", !.snap = TRUE, !.rows = rows])

\* ------------------------------------------------------ persistence failure
\* A call that carries the session fails for a reason of the persistence
\* layer (connection loss, transaction abort): the catch block runs.
TxPcs == {"wMem", "wGrp", "commit", "cGrp", "cMem", "dSave", "dMany"}

Fail(p) ==
  /\ proc[p].pc \in TxPcs
  /\ Throw(p, Internal)

\* ------------------------------------------------------ the capacity scenario
\* scen follows one run of the scenario "create with capacity 2, A joins, B is
\* refused, A leaves, B joins" on group 1: its stage, and who A and B are.
\* It is a history variable: no handler reads it.  Any other request that
\* changes group 1 in between ends the scenario (stage 9).
NoScenario == [stage |-> 0, a |-> 0, b |-> 0]

Completed(p) == InFlight(p) /\ proc'[p].pc = "done"

ScenarioStep(p) ==
  LET e == proc'[p]
      on1 == e.g = 1
      ok == e.res = OK
      isJoin == e.op \in {"join", "mjoin"}
      isLeave == e.op \in {"leave", "mleave"}
      off == [scen EXCEPT !.stage = 9]
  IN IF ~Completed(p) \/ ~on1 \/ scen.stage = 9 THEN scen
     ELSE CASE scen.stage = 0 ->
                 IF e.op = "create" /\ ok
                 THEN IF groups'[1].capacity = 2 THEN [scen EXCEPT !.stage = 1]
                      ELSE off
                 ELSE scen
            [] scen.stage = 1 ->
                 IF isJoin /\ ok THEN [scen EXCEPT !.stage = 2, !.a = e.t]
                 ELSE IF ok THEN off ELSE scen
            [] scen.stage = 2 ->
                 IF isJoin /\ e.res = Forbidden /\ e.t # scen.a
                    /\ e.t # groups[1].leader
                 THEN [scen EXCEPT !.stage = 3, !.b = e.t]
                 ELSE IF ok THEN off ELSE scen
            [] scen.stage = 3 ->
                 IF isLeave /\ ok /\ e.t = scen.a THEN [scen EXCEPT !.stage = 4]
                 ELSE IF ok THEN off ELSE scen
            [] scen.stage = 4 ->
                 IF isJoin /\ ok /\ e.t = scen.b THEN [scen EXCEPT !.stage = 5]
                 ELSE IF ok THEN off ELSE scen
            [] scen.stage = 5 -> IF ok THEN off ELSE scen

Track(p) == scen' = ScenarioStep(p)

\* ------------------------------------------------------------------ requests
\* A request arrives: at the handler itself (route = FALSE), or at the first
\* guard of its route.  GS are the group ids callers name, lim the number of
\* groups that may be created.
Begin(p, op, route, g, u, t) ==
  [Idle EXCEPT !.op = op, !.pc = EntryPc(op, route), !.g = g, !.u = u,
                       !.t = t]

\* The users are interchangeable: the first group is created by user 1, the
\* k-th by one of the first k users.
Creators == {u \in Users : u <= NumGroups + 1}

StartCreate(p, lim, VS) ==
  /\ IsIdle(p)
  /\ NumGroups + Creating < lim
  /\ \E u \in Creators, cap \in Capacities, vis \in VS :
       Goto(p, [Begin(p, "create", FALSE, 0, u, u) EXCEPT !.cap = cap, !.vis = vis])

StartUpdate(p, route, GS, VS) ==
  /\ IsIdle(p)
  /\ \E g \in GS, u \in Users, cap \in {0} \cup Capacities,
        vis \in {"none"} \cup VS :
       /\ cap # 0 \/ vis # "none"
       /\ Goto(p, [Begin(p, "update", route, g, u, u) EXCEPT !.cap = cap, !.vis = vis])

StartDelete(p, route, GS) ==
  /\ IsIdle(p)
  /\ \E g \in GS, u \in Users : Goto(p, Begin(p, "delete", route, g, u, u))

\* POST /:groupId/join of group.routes -> groupService.joinGroup
StartJoin(p, route, GS, CS) ==
  /\ IsIdle(p)
  /\ \E g \in GS, u \in Users, code \in CS :
       Goto(p, [Begin(p, "join", route, g, u, u) EXCEPT !.code = code])

\* POST /:groupId/leave of group.routes -> groupService.leaveGroup
StartLeave(p, route, GS) ==
  /\ IsIdle(p)
  /\ \E g \in GS, u \in Users : Goto(p, Begin(p, "leave", route, g, u, u))

\* member.controller joinGroup / leaveGroup
StartMemberJoin(p, route, GS) ==
  /\ IsIdle(p)
  /\ \E g \in GS, u \in Users : Goto(p, Begin(p, "mjoin", route, g, u, u))

StartMemberLeave(p, route, GS) ==
  /\ IsIdle(p)
  /\ \E g \in GS, u \in Users : Goto(p, Begin(p, "mleave", route, g, u, u))

\* member.controller addMember / removeMember: u is the requester (read by
\* the route's guard only), t the user added or removed.
StartAdd(p, route, GS) ==
  /\ IsIdle(p)
  /\ \E g \in GS, u \in Users, t \in Users :
       /\ route \/ u = t
       /\ Goto(p, Begin(p, "add", route, g, u, t))

StartRemove(p, route, GS) ==
  /\ IsIdle(p)
  /\ \E g \in GS, u \in Users, t \in Users :
       /\ route \/ u = t
       /\ Goto(p, Begin(p, "remove", route, g, u, t))

Init ==
  /\ groups = [g \in GroupIds |-> NoGroup]
  /\ members = [g \in GroupIds |-> [u \in Users |-> NoRow]]
  /\ proc = [p \in AllProcs |-> Idle]
  /\ scen = NoScenario
  /\ messages = [m \in MsgIds |-> NoMessage]
  /\ now = 0

\* The response is sent; the process is free for the next request.
Return(p) ==
  /\ proc[p].pc = "done"
  /\ Goto(p, Idle)

ConcGroups == 1..MaxGroupsConc

\* Concurrent requests on public groups, each at its handler.  The two
\* controller handlers that repeat addMember's and removeMember's code
\* (member.controller joinGroup, leaveGroup) run in SpecSeq.
Next ==
  \/ \E p \in Procs : StartCreate(p, MaxGroupsConc, {PUBLIC}) /\ UNCHANGED <<scen, messages, now>>
  \/ \E p \in Procs : StartUpdate(p, FALSE, ConcGroups, {}) /\ UNCHANGED <<scen, messages, now>>
  \/ \E p \in Procs : StartJoin(p, FALSE, ConcGroups, {NoCode}) /\ UNCHANGED <<scen, messages, now>>
  \/ \E p \in Procs : StartLeave(p, FALSE, ConcGroups) /\ UNCHANGED <<scen, messages, now>>
  \/ \E p \in Procs : StartAdd(p, FALSE, ConcGroups) /\ UNCHANGED <<scen, messages, now>>
  \/ \E p \in Procs : StartRemove(p, FALSE, ConcGroups) /\ UNCHANGED <<scen, messages, now>>
  \/ \E p \in Procs : CreateGroupDoc(p) /\ UNCHANGED <<scen, messages, now>>
  \/ \E p \in Procs : CreateLeaderRow(p) /\ UNCHANGED <<scen, messages, now>>
  \/ \E p \in Procs : UpdateReadGroup(p) /\ UNCHANGED <<scen, messages, now>>
  \/ \E p \in Procs : UpdateSave(p) /\ UNCHANGED <<scen, messages, now>>
  \/ \E p \in Procs : JoinReadGroup(p) /\ UNCHANGED <<scen, messages, now>>
  \/ \E p \in Procs : JoinReadMember(p) /\ UNCHANGED <<scen, messages, now>>
  \/ \E p \in Procs : LeaveReadGroup(p) /\ UNCHANGED <<scen, messages, now>>
  \/ \E p \in Procs : LeaveReadMember(p) /\ UNCHANGED <<scen, messages, now>>
  \/ \E p \in Procs : ControllerJoinRead(p) /\ UNCHANGED <<scen, messages, now>>
  \/ \E p \in Procs : ControllerLeaveRead(p) /\ UNCHANGED <<scen, messages, now>>
  \/ \E p \in Procs : WriteMember(p) /\ UNCHANGED <<scen, messages, now>>
  \/ \E p \in Procs : WriteGroup(p) /\ UNCHANGED <<scen, messages, now>>
  \/ \E p \in Procs : Commit(p) /\ UNCHANGED <<scen, messages, now>>
  \/ \E p \in Procs : Fail(p) /\ UNCHANGED <<scen, messages, now>>
  \/ \E p \in Procs : Return(p) /\ UNCHANGED <<scen, messages, now>>

Spec == Init /\ [][Next]_vars

\* In the sequential runs the scenario is followed (tracked) or left alone.
Monitor(tracked) ==
  IF tracked THEN Track(1) /\ UNCHANGED <<messages, now>>
  ELSE UNCHANGED <<scen, messages, now>>

\* Requests handled one at a time by process 1, each arriving at its handler
\* or through its route, on at most lim groups; every operation but
\* deleteGroup and the visibility patch of updateGroup.
SeqActions(lim, tracked) ==
  \/ StartCreate(1, lim, Visibilities) /\ Monitor(tracked)
  \/ \E route \in BOOLEAN : StartUpdate(1, route, 1..lim, {}) /\ Monitor(tracked)
  \/ \E route \in BOOLEAN :
       StartJoin(1, route, 1..lim, {NoCode} \cup 1..lim) /\ Monitor(tracked)
  \/ \E route \in BOOLEAN : StartLeave(1, route, 1..lim) /\ Monitor(tracked)
  \/ \E route \in BOOLEAN : StartMemberJoin(1, route, 1..lim) /\ Monitor(tracked)
  \/ \E route \in BOOLEAN : StartMemberLeave(1, route, 1..lim) /\ Monitor(tracked)
  \/ \E route \in BOOLEAN : StartAdd(1, route, 1..lim) /\ Monitor(tracked)
  \/ \E route \in BOOLEAN : StartRemove(1, route, 1..lim) /\ Monitor(tracked)
  \/ Guard(1) /\ Monitor(tracked)
  \/ CreateGroupDoc(1) /\ Monitor(tracked)
  \/ CreateLeaderRow(1) /\ Monitor(tracked)
  \/ UpdateReadGroup(1) /\ Monitor(tracked)
  \/ UpdateSave(1) /\ Monitor(tracked)
  \/ JoinReadGroup(1) /\ Monitor(tracked)
  \/ JoinReadMember(1) /\ Monitor(tracked)
  \/ LeaveReadGroup(1) /\ Monitor(tracked)
  \/ LeaveReadMember(1) /\ Monitor(tracked)
  \/ ControllerJoinRead(1) /\ Monitor(tracked)
  \/ ControllerLeaveRead(1) /\ Monitor(tracked)
  \/ WriteMember(1) /\ Monitor(tracked)
  \/ WriteGroup(1) /\ Monitor(tracked)
  \/ Commit(1) /\ Monitor(tracked)
  \/ Fail(1) /\ Monitor(tracked)
  \/ Return(1) /\ Monitor(tracked)

SeqNext == SeqActions(MaxGroups, FALSE)

SpecSeq == Init /\ [][SeqNext]_vars

\* The sequential runs on one group, with the capacity scenario followed.
ScenNext == SeqActions(MaxGroupsConc, TRUE)

SpecScen == Init /\ [][ScenNext]_vars

\* Concurrent requests on one public group with deleteGroup among them: the
\* operations that write the leader's row or isActive, or could remove them.
DelNext ==
  \/ \E p \in Procs : StartCreate(p, MaxGroupsConc, {PUBLIC}) /\ UNCHANGED <<scen, messages, now>>
  \/ \E p \in Procs : StartDelete(p, FALSE, ConcGroups) /\ UNCHANGED <<scen, messages, now>>
  \/ \E p \in Procs : StartJoin(p, FALSE, ConcGroups, {NoCode}) /\ UNCHANGED <<scen, messages, now>>
  \/ \E p \in Procs : StartLeave(p, FALSE, ConcGroups) /\ UNCHANGED <<scen, messages, now>>
  \/ \E p \in Procs : StartRemove(p, FALSE, ConcGroups) /\ UNCHANGED <<scen, messages, now>>
  \/ \E p \in Procs : CreateGroupDoc(p) /\ UNCHANGED <<scen, messages, now>>
  \/ \E p \in Procs : CreateLeaderRow(p) /\ UNCHANGED <<scen, messages, now>>
  \/ \E p \in Procs : DeleteReadGroup(p) /\ UNCHANGED <<scen, messages, now>>
  \/ \E p \in Procs : DeleteSave(p) /\ UNCHANGED <<scen, messages, now>>
  \/ \E p \in Procs : DeleteUpdateMany(p) /\ UNCHANGED <<scen, messages, now>>
  \/ \E p \in Procs : JoinReadGroup(p) /\ UNCHANGED <<scen, messages, now>>
  \/ \E p \in Procs : JoinReadMember(p) /\ UNCHANGED <<scen, messages, now>>
  \/ \E p \in Procs : LeaveReadGroup(p) /\ UNCHANGED <<scen, messages, now>>
  \/ \E p \in Procs : LeaveReadMember(p) /\ UNCHANGED <<scen, messages, now>>
  \/ \E p \in Procs : ControllerLeaveRead(p) /\ UNCHANGED <<scen, messages, now>>
  \/ \E p \in Procs : WriteMember(p) /\ UNCHANGED <<scen, messages, now>>
  \/ \E p \in Procs : WriteGroup(p) /\ UNCHANGED <<scen, messages, now>>
  \/ \E p \in Procs : Commit(p) /\ UNCHANGED <<scen, messages, now>>
  \/ \E p \in Procs : Fail(p) /\ UNCHANGED <<scen, messages, now>>
  \/ \E p \in Procs : Return(p) /\ UNCHANGED <<scen, messages, now>>

SpecDel == Init /\ [][DelNext]_vars

\* Three concurrent requests on one public group: process 3 creates and
\* deletes the group, processes 1 and 2 join (process 2 also through
\* addMember).
RejoinNext ==
  \/ StartCreate(3, MaxGroupsConc, {PUBLIC}) /\ UNCHANGED <<scen, messages, now>>
  \/ StartDelete(3, FALSE, ConcGroups) /\ UNCHANGED <<scen, messages, now>>
  \/ \E p \in Procs : StartJoin(p, FALSE, ConcGroups, {NoCode}) /\ UNCHANGED <<scen, messages, now>>
  \/ StartAdd(2, FALSE, ConcGroups) /\ UNCHANGED <<scen, messages, now>>
  \/ CreateGroupDoc(3) /\ UNCHANGED <<scen, messages, now>>
  \/ CreateLeaderRow(3) /\ UNCHANGED <<scen, messages, now>>
  \/ DeleteReadGroup(3) /\ UNCHANGED <<scen, messages, now>>
  \/ DeleteSave(3) /\ UNCHANGED <<scen, messages, now>>
  \/ DeleteUpdateMany(3) /\ UNCHANGED <<scen, messages, now>>
  \/ \E p \in Procs : JoinReadGroup(p) /\ UNCHANGED <<scen, messages, now>>
  \/ \E p \in Procs : JoinReadMember(p) /\ UNCHANGED <<scen, messages, now>>
  \/ ControllerJoinRead(2) /\ UNCHANGED <<scen, messages, now>>
  \/ \E p \in Procs : WriteMember(p) /\ UNCHANGED <<scen, messages, now>>
  \/ \E p \in Procs : WriteGroup(p) /\ UNCHANGED <<scen, messages, now>>
  \/ \E p \in AllProcs : Commit(p) /\ UNCHANGED <<scen, messages, now>>
  \/ \E p \in AllProcs : Fail(p) /\ UNCHANGED <<scen, messages, now>>
  \/ \E p \in AllProcs : Return(p) /\ UNCHANGED <<scen, messages, now>>

SpecRejoin == Init /\ [][RejoinNext]_vars

\* --------------------------------------------------------------------- reads
\* The requester of a read: a user, or nobody (req.userId undefined behind
\* optionalAuth), written 0.
Viewers == {0} \cup Users

IsActiveMember(g, u) == u # 0 /\ members[g][u].status = ACTIVE

\* group.leader.toString() === userId on a document whose leader path is
\* populated: the string of the populated user object, never the id.
PopulatedLeaderIs(g, u) == FALSE

\* getGroups: the documents Group.find(filter) returns, filter being
\* { isActive: true }, the visibility asked for, and public when nobody asks.
GetGroupsResult(u, vis) ==
  {g \in GroupIds :
     /\ groups[g].exists /\ groups[g].isActive
     /\ IF u = 0 THEN groups[g].visibility = PUBLIC
        ELSE vis # "none" => groups[g].visibility = vis}

\* searchGroups: buildCombinedFilter({ visibility, isActive: true }).
SearchGroupsResult(vis) ==
  {g \in GroupIds :
     /\ groups[g].exists /\ groups[g].isActive
     /\ vis # "none" => groups[g].visibility = vis}

\* formatGroupResponse: the joinCode field of the response for viewer u.
FormatJoinCode(g, u) ==
  IF IsActiveMember(g, u) \/ PopulatedLeaderIs(g, u)
  THEN groups[g].joinCode ELSE NoCode

\* The check of getGroupById and getGroupMembers on a private group; it is
\* made only when a userId is given.
PrivateReadRefused(g, u, leaderIs) ==
  /\ groups[g].visibility = PRIVATE
  /\ u # 0
  /\ ~IsActiveMember(g, u) /\ ~leaderIs

\* groupService.getGroups
GetGroups(p) ==
  /\ proc[p].op = "list" /\ proc[p].pc = "rList"
  /\ Goto(p, Done(proc[p], OK))

\* groupService.getGroupById (the document is read with populate and lean)
GetGroupById(p) ==
  LET r == proc[p] IN
  /\ r.op = "get" /\ r.pc = "rGet"
  /\ IF ~groups[r.g].exists THEN Goto(p, Done(r, NotFound))
     ELSE IF PrivateReadRefused(r.g, r.u, PopulatedLeaderIs(r.g, r.u))
          THEN Goto(p, Done(r, Forbidden))
     ELSE Goto(p, Done(r, OK))

\* groupService.getGroupMembers
GetGroupMembers(p) ==
  LET r == proc[p] IN
  /\ r.op = "members" /\ r.pc = "rMembers"
  /\ IF ~groups[r.g].exists THEN Goto(p, Done(r, NotFound))
     ELSE IF PrivateReadRefused(r.g, r.u, groups[r.g].leader = r.u)
          THEN Goto(p, Done(r, Forbidden))
     ELSE Goto(p, Done(r, OK))

\* search.controller searchGroups (no authentication)
SearchGroups(p) ==
  /\ proc[p].op = "search" /\ proc[p].pc = "rSearch"
  /\ Goto(p, Done(proc[p], OK))

\* The joinCode the answer of an answered request carries for group g: the
\* formatted response of the group service, the documents themselves from
\* searchGroups and member.controller joinGroup, nothing from the others.
ResponseJoinCode(p, g) ==
  LET r == proc[p] IN
  CASE r.res # OK -> NoCode
    [] r.op \in {"create", "update", "join", "get"} /\ r.g = g ->
         FormatJoinCode(g, r.u)
    [] r.op = "list" /\ g \in GetGroupsResult(r.u, r.vis) ->
         FormatJoinCode(g, r.u)
    [] r.op = "search" /\ g \in SearchGroupsResult(r.vis) -> groups[g].joinCode
    [] r.op = "mjoin" /\ r.g = g -> groups[g].joinCode
    [] OTHER -> NoCode

\* A read arrives: getGroups, getGroupById, getGroupMembers (optionalAuth) or
\* searchGroups (no authentication).
StartRead(p, GS) ==
  /\ IsIdle(p)
  /\ \/ \E u \in Viewers, vis \in {"none"} \cup Visibilities :
          Goto(p, [Begin(p, "list", FALSE, 0, u, u) EXCEPT !.vis = vis])
     \/ \E g \in GS, u \in Viewers : Goto(p, Begin(p, "get", FALSE, g, u, u))
     \/ \E g \in GS, u \in Viewers :
          Goto(p, Begin(p, "members", FALSE, g, u, u))
     \/ \E vis \in {"none"} \cup Visibilities :
          Goto(p, [Begin(p, "search", FALSE, 0, 0, 0) EXCEPT !.vis = vis])

\* Requests handled one at a time on one group: those of SeqActions, the
\* visibility patches of updateGroup, deleteGroup, and the reads.
MgmtNext ==
  \/ SeqActions(MaxGroupsConc, FALSE)
  \/ \E route \in BOOLEAN :
       StartUpdate(1, route, ConcGroups, Visibilities) /\ UNCHANGED <<scen, messages, now>>
  \/ \E route \in BOOLEAN : StartDelete(1, route, ConcGroups) /\ UNCHANGED <<scen, messages, now>>
  \/ DeleteReadGroup(1) /\ UNCHANGED <<scen, messages, now>>
  \/ DeleteSave(1) /\ UNCHANGED <<scen, messages, now>>
  \/ DeleteUpdateMany(1) /\ UNCHANGED <<scen, messages, now>>
  \/ StartRead(1, ConcGroups) /\ UNCHANGED <<scen, messages, now>>
  \/ GetGroups(1) /\ UNCHANGED <<scen, messages, now>>
  \/ GetGroupById(1) /\ UNCHANGED <<scen, messages, now>>
  \/ GetGroupMembers(1) /\ UNCHANGED <<scen, messages, now>>
  \/ SearchGroups(1) /\ UNCHANGED <<scen, messages, now>>

SpecMgmt == Init /\ [][MgmtNext]_vars

\* --------------------------------------------------------------- role gating
\* No handler of the given source writes role admin: the grant is made by
\* code outside it (the leader grants the role to an ACTIVE member, the row
\* keeps its status).
GrantAdmin(g, u) ==
  /\ AllIdle
  /\ groups[g].exists /\ groups[g].isActive
  /\ members[g][u] = [role |-> MEMBER, status |-> ACTIVE]
  /\ members' = [members EXCEPT ![g][u].role = ADMIN]
  /\ UNCHANGED <<groups, proc>>

\* Requests handled one at a time on one group, with admins among the
\* members; addMember and removeMember arrive through their routes.
RolesNext ==
  \/ StartCreate(1, MaxGroupsConc, {PUBLIC}) /\ UNCHANGED <<scen, messages, now>>
  \/ \E route \in BOOLEAN : StartUpdate(1, route, ConcGroups, {}) /\ UNCHANGED <<scen, messages, now>>
  \/ \E route \in BOOLEAN : StartDelete(1, route, ConcGroups) /\ UNCHANGED <<scen, messages, now>>
  \/ StartJoin(1, FALSE, ConcGroups, {NoCode}) /\ UNCHANGED <<scen, messages, now>>
  \/ StartAdd(1, TRUE, ConcGroups) /\ UNCHANGED <<scen, messages, now>>
  \/ StartRemove(1, TRUE, ConcGroups) /\ UNCHANGED <<scen, messages, now>>
  \/ \E g \in ConcGroups, u \in Users : GrantAdmin(g, u) /\ UNCHANGED <<scen, messages, now>>
  \/ Guard(1) /\ UNCHANGED <<scen, messages, now>>
  \/ CreateGroupDoc(1) /\ UNCHANGED <<scen, messages, now>>
  \/ CreateLeaderRow(1) /\ UNCHANGED <<scen, messages, now>>
  \/ UpdateReadGroup(1) /\ UNCHANGED <<scen, messages, now>>
  \/ UpdateSave(1) /\ UNCHANGED <<scen, messages, now>>
  \/ DeleteReadGroup(1) /\ UNCHANGED <<scen, messages, now>>
  \/ DeleteSave(1) /\ UNCHANGED <<scen, messages, now>>
  \/ DeleteUpdateMany(1) /\ UNCHANGED <<scen, messages, now>>
  \/ JoinReadGroup(1) /\ UNCHANGED <<scen, messages, now>>
  \/ JoinReadMember(1) /\ UNCHANGED <<scen, messages, now>>
  \/ ControllerJoinRead(1) /\ UNCHANGED <<scen, messages, now>>
  \/ ControllerLeaveRead(1) /\ UNCHANGED <<scen, messages, now>>
  \/ WriteMember(1) /\ UNCHANGED <<scen, messages, now>>
  \/ WriteGroup(1) /\ UNCHANGED <<scen, messages, now>>
  \/ Commit(1) /\ UNCHANGED <<scen, messages, now>>
  \/ Fail(1) /\ UNCHANGED <<scen, messages, now>>
  \/ Return(1) /\ UNCHANGED <<scen, messages, now>>

SpecRoles == Init /\ [][RolesNext]_vars

\* ---------------------------------------------------------------------- chat
\* A chat handler answers: the messages are as given, nothing else changes.
Answer(p, kind, msgs) ==
  /\ proc' = [proc EXCEPT ![p] = Done(proc[p], kind)]
  /\ messages' = msgs
  /\ UNCHANGED <<groups, members, scen, now>>

\* Message.findById has found the document: the handler goes on with its
\* copy of it.
Loaded(p, pc) ==
  /\ proc' = [proc EXCEPT ![p] = [proc[p] EXCEPT !.pc = pc,
                                                 !.doc = messages[proc[p].m]]]
  /\ UNCHANGED <<groups, members, scen, messages, now>>

Stored == {m \in MsgIds : messages[m].exists}

\* Faulty variant of ReplyRefused: the group of the message is not compared.
ReplyRefusedIfMissing(g, replyTo) == replyTo # 0 /\ ~messages[replyTo].exists

\* if (replyTo): !replyMessage || replyMessage.groupId.toString() !== groupId
ReplyRefused(g, replyTo) ==
  /\ replyTo # 0
  /\ ~messages[replyTo].exists \/ messages[replyTo].groupId # g

\* sendMessage: Group.findById, the replyTo check, Message.create;
\* timestamps: true sets createdAt.  The ids grow with the order of creation.
SendMessage(p) ==
  LET r == proc[p]
      id == Cardinality(Stored) + 1
  IN /\ r.op = "send" /\ r.pc = "mSend"
     /\ IF ~groups[r.g].exists THEN Answer(p, NotFound, messages)
        ELSE IF ReplyRefused(r.g, r.replyTo)
             THEN Answer(p, BadRequest, messages)
        ELSE Answer(p, OK,
               [messages EXCEPT ![id] =
                  [NoMessage EXCEPT !.exists = TRUE, !.groupId = r.g,
                                    !.sender = r.u, !.content = r.txt,
                                    !.replyTo = r.replyTo,
                                    !.createdAt = now]])

\* timeSinceCreation > fifteenMinutes
PastEditWindow(msg) == now - msg.createdAt > fifteenMinutes

\* editMessage, up to message.save()
EditMessage(p) ==
  LET r == proc[p]
      msg == messages[r.m]
  IN /\ r.op = "edit" /\ r.pc = "mEdit"
     /\ IF ~msg.exists THEN Answer(p, NotFound, messages)
        ELSE IF msg.sender # r.u THEN Answer(p, Forbidden, messages)
        ELSE IF msg.isDeleted THEN Answer(p, BadRequest, messages)
        ELSE IF PastEditWindow(msg) THEN Answer(p, Forbidden, messages)
        ELSE Loaded(p, "mSave")

\* Faulty variant of MayDelete: any ACTIVE member of the group passes.
MayDeleteAnyMember(msg, u) ==
  msg.sender = u \/ members[msg.groupId][u].status = ACTIVE

\* isSender || isLeader
MayDelete(msg, u) == msg.sender = u \/ groups[msg.groupId].leader = u

\* deleteMessage, up to message.save() (the group of a stored message exists:
\* groups are never removed)
DeleteMessage(p) ==
  LET r == proc[p]
      msg == messages[r.m]
  IN /\ r.op = "softDelete" /\ r.pc = "mDelete"
     /\ IF ~msg.exists THEN Answer(p, NotFound, messages)
        ELSE IF ~MayDelete(msg, r.u) THEN Answer(p, Forbidden, messages)
        ELSE Loaded(p, "mSave")

\* togglePinMessage, up to the count of the pinned messages
TogglePinMessage(p) ==
  LET r == proc[p]
      msg == messages[r.m]
  IN /\ r.op = "pin" /\ r.pc = "mPin"
     /\ IF ~msg.exists THEN Answer(p, NotFound, messages)
        ELSE IF groups[msg.groupId].leader # r.u
             THEN Answer(p, Forbidden, messages)
        ELSE Loaded(p, IF msg.isPinned THEN "mSave" ELSE "mCount")

\* Message.countDocuments({ groupId, isPinned: true })
PinnedCount(g) ==
  Cardinality({m \in MsgIds : /\ messages[m].exists
                              /\ messages[m].groupId = g
                              /\ messages[m].isPinned})

\* Faulty variant of PinLimitReached: one pin too many is let through.
PinLimitReachedLate(g) == PinnedCount(g) > MaxPinned

\* pinnedCount >= 5
PinLimitReached(g) == PinnedCount(g) >= MaxPinned

\* togglePinMessage: the count, made when the loaded message is not pinned
CountPinned(p) ==
  LET r == proc[p] IN
  /\ r.pc = "mCount"
  /\ IF PinLimitReached(r.doc.groupId) THEN Answer(p, BadRequest, messages)
     ELSE Step(p, r, "mSave") /\ UNCHANGED <<scen, messages, now>>

\* Faulty variant of AlreadyRead: the string userId is compared with the
\* stored ObjectIds by identity and equals none.
AlreadyReadNever(msg, u) == FALSE

\* message.readBy.includes(userId)
AlreadyRead(msg, u) == \E i \in DOMAIN msg.readBy : msg.readBy[i] = u

\* getReadStatus: readCount is message.readBy.length
GetReadStatus(msg) == [readBy |-> msg.readBy, readCount |-> Len(msg.readBy)]

\* reactToMessage and markAsRead, up to message.save(); a reader who is in
\* readBy already is answered without a save.
ReadMessage(p) ==
  LET r == proc[p]
      msg == messages[r.m]
  IN /\ \/ r.op = "react" /\ r.pc = "mReact"
        \/ r.op = "read" /\ r.pc = "mRead"
     /\ IF ~msg.exists THEN Answer(p, NotFound, messages)
        ELSE IF r.op = "read" /\ AlreadyRead(msg, r.u)
             THEN Answer(p, OK, messages)
        ELSE Loaded(p, "mSave")

\* message.reactions.find((r) => r.emoji === emoji): its index, 0 for none
FindReaction(rs, e) ==
  IF \E i \in DOMAIN rs : rs[i].emoji = e
  THEN CHOOSE i \in DOMAIN rs :
         rs[i].emoji = e /\ \A j \in 1..(i - 1) : rs[j].emoji # e
  ELSE 0

\* users.findIndex((u) => u.toString() === userId): 0 for none
FindUser(us, u) ==
  IF \E i \in DOMAIN us : us[i] = u
  THEN CHOOSE i \in DOMAIN us : us[i] = u /\ \A j \in 1..(i - 1) : us[j] # u
  ELSE 0

\* Faulty variant of React: the entry stays when its last user leaves.
ReactKeepsEmptyEntry(rs, u, e) ==
  LET i == FindReaction(rs, e) IN
  IF i = 0 THEN Append(rs, [emoji |-> e, users |-> <<u>>])
  ELSE LET us == rs[i].users
           k == FindUser(us, u)
       IN IF k = 0 THEN [rs EXCEPT ![i].users = Append(us, u)]
          ELSE [rs EXCEPT ![i].users =
                  SubSeq(us, 1, k - 1) \o SubSeq(us, k + 1, Len(us))]

\* reactToMessage: message.reactions after the handler has changed its copy
React(rs, u, e) ==
  LET i == FindReaction(rs, e) IN
  IF i = 0 THEN Append(rs, [emoji |-> e, users |-> <<u>>])
  ELSE LET us == rs[i].users
           k == FindUser(us, u)
           rest == SubSeq(us, 1, k - 1) \o SubSeq(us, k + 1, Len(us))
       IN IF k = 0 THEN [rs EXCEPT ![i].users = Append(us, u)]
          ELSE IF rest = <<>> THEN SelectSeq(rs, LAMBDA x : x.emoji # e)
          ELSE [rs EXCEPT ![i].users = rest]

\* What reactToMessage changes in its copy rs of message.reactions: "push"
\* (reactions.push of a new entry), "add" (users.push in the entry found),
\* "pull" (users.splice, users are left) or "drop" (users.splice of the last
\* user, then reactions is replaced by the filtered array).
ReactChange(rs, u, e) ==
  LET i == FindReaction(rs, e) IN
  IF i = 0 THEN "push"
  ELSE IF FindUser(rs[i].users, u) = 0 THEN "add"
  ELSE IF Len(rs[i].users) = 1 THEN "drop"
  ELSE "pull"

\* message.save() puts the loaded __v in its filter when the change is
\* inside an element of an array or replaces an array: users.push and
\* users.splice in reactions[i], and the replacement of reactions.
VersionChecked(r) ==
  r.op = "react" /\ ReactChange(r.doc.reactions, r.u, r.emoji) # "push"

\* message.save() increments __v when it pushes to an array or replaces one;
\* the $set of reactions[i].users after a splice does not.
VersionBumped(r) ==
  \/ r.op \in {"edit", "read"}
  \/ r.op = "react" /\ ReactChange(r.doc.reactions, r.u, r.emoji) # "pull"

\* Faulty variant of OldContent: the entry is taken after the replacement.
OldContentAfter(r) == r.txt

\* editHistory.push({ content: message.content, ... }), before the content of
\* the copy is replaced
OldContent(r) == r.doc.content

\* Faulty variant of SoftDeleted: the document is removed.
HardDeleted(cur, r) == NoMessage

\* deleteMessage: isDeleted, deletedAt (new Date()) and deletedBy are set in
\* the copy and saved; each is sent when it differs from the loaded one.
SoftDeleted(cur, r) ==
  [cur EXCEPT !.isDeleted = TRUE,
              !.deletedAt = IF now # r.doc.deletedAt THEN now ELSE @,
              !.deletedBy = IF r.u # r.doc.deletedBy THEN r.u ELSE @]

\* The document after message.save() has sent the paths the handler changed
\* in its copy r.doc: $set for the values that differ from the loaded ones
\* and for an array that was spliced or replaced, $push for the elements
\* appended to an array.
Saved(cur, r) ==
  CASE r.op = "edit" ->
         [cur EXCEPT !.editHistory = Append(@, OldContent(r)),
                     !.content = IF r.txt # r.doc.content THEN r.txt ELSE @,
                     !.isEdited = TRUE]
    [] r.op = "softDelete" -> SoftDeleted(cur, r)
    [] r.op = "pin" -> [cur EXCEPT !.isPinned = ~r.doc.isPinned]
    [] r.op = "react" ->
         LET copy == React(r.doc.reactions, r.u, r.emoji)
             i == FindReaction(r.doc.reactions, r.emoji)
             change == ReactChange(r.doc.reactions, r.u, r.emoji)
         IN [cur EXCEPT !.reactions =
               CASE change = "push" -> Append(@, copy[Len(copy)])
                 [] change = "add" -> [@ EXCEPT ![i].users = Append(@, r.u)]
                 [] change = "pull" -> [@ EXCEPT ![i].users = copy[i].users]
                 [] change = "drop" -> copy]
    [] r.op = "read" -> [cur EXCEPT !.readBy = Append(@, r.u)]

\* message.save().  After a save that increments __v the copies other
\* handlers hold of the document are of an older version, and a save with
\* the version in its filter fails for them (VersionError).
SaveMessage(p) ==
  LET r == proc[p]
      bump == VersionBumped(r)
  IN /\ r.pc = "mSave"
     /\ IF VersionChecked(r) /\ r.vStale THEN Answer(p, Internal, messages)
        ELSE /\ messages' = [messages EXCEPT ![r.m] = Saved(messages[r.m], r)]
             /\ proc' = [q \in AllProcs |->
                           IF q = p THEN Done(r, OK)
                           ELSE IF bump /\ proc[q].m = r.m
                                   /\ proc[q].pc \in {"mCount", "mSave"}
                                THEN [proc[q] EXCEPT !.vStale = TRUE]
                           ELSE proc[q]]
             /\ UNCHANGED <<groups, members, scen, now>>

\* The chat requests of a run, to be narrowed by each specification: no
\* operation yet, the users of Reactors on one message of one group, one
\* content, no replyTo, every emoji.
ChatRequests ==
  [ops |-> {}, groups |-> ConcGroups, users |-> Reactors, contents |-> {1},
   replies |-> {0}, emojis |-> Emojis, reacts |-> NumReactors * MaxEmoji,
   msgs |-> ChatMsgs]

\* A chat request arrives: send through its route (isMember), the others at
\* their handlers (their routes only authenticate).  q names the requests
\* that arrive: operations, users, contents, emojis, how many messages are
\* sent, and up to how many stored reactions a message takes one more; a
\* message is edited at most MaxEdits times.
StartChat(p, q) ==
  /\ IsIdle(p)
  /\ \/ \E g \in q.groups, u \in q.users, c \in q.contents,
           rt \in q.replies :
          /\ "send" \in q.ops
          /\ Cardinality(Stored) < q.msgs
          /\ Goto(p, [Begin(p, "send", TRUE, g, u, u) EXCEPT
                        !.txt = c, !.replyTo = rt])
     \/ \E m \in 1..q.msgs, u \in q.users, c \in q.contents :
          /\ "edit" \in q.ops
          /\ Len(messages[m].editHistory) < MaxEdits
          /\ Goto(p, [Begin(p, "edit", FALSE, 0, u, u) EXCEPT !.m = m, !.txt = c])
     \/ \E m \in 1..q.msgs, u \in q.users,
           op \in q.ops \cap {"softDelete", "pin", "read"} :
          Goto(p, [Begin(p, op, FALSE, 0, u, u) EXCEPT !.m = m])
     \/ \E m \in 1..q.msgs, u \in q.users, e \in q.emojis :
          /\ "react" \in q.ops
          /\ LET rs == messages[m].reactions
             IN Cardinality(UNION {{<<i, k>> : k \in DOMAIN rs[i].users} :
                                     i \in DOMAIN rs}) <= q.reacts
          /\ Goto(p, [Begin(p, "react", FALSE, 0, u, u) EXCEPT
                        !.m = m, !.emoji = e])

\* Date.now() advances (the clock starts with the first message).
Tick ==
  /\ now < MaxTime
  /\ Stored # {}
  /\ now' = now + 1
  /\ UNCHANGED <<groups, members, proc, scen, messages>>

\* Chat requests handled one at a time on one public group, whose members
\* come by createGroup and joinGroup: one message, its edits, its deletion
\* and its pin, with the clock.
ChatNext ==
  \/ StartCreate(1, MaxGroupsConc, {PUBLIC}) /\ UNCHANGED <<scen, messages, now>>
  \/ StartJoin(1, FALSE, ConcGroups, {NoCode}) /\ UNCHANGED <<scen, messages, now>>
  \/ StartChat(1, [ChatRequests EXCEPT !.ops = {"send", "edit", "softDelete", "pin"},
                                       !.users = Users,
                                       !.contents = Contents])
       /\ UNCHANGED <<scen, messages, now>>
  \/ Guard(1) /\ UNCHANGED <<scen, messages, now>>
  \/ CreateGroupDoc(1) /\ UNCHANGED <<scen, messages, now>>
  \/ CreateLeaderRow(1) /\ UNCHANGED <<scen, messages, now>>
  \/ JoinReadGroup(1) /\ UNCHANGED <<scen, messages, now>>
  \/ JoinReadMember(1) /\ UNCHANGED <<scen, messages, now>>
  \/ WriteMember(1) /\ UNCHANGED <<scen, messages, now>>
  \/ WriteGroup(1) /\ UNCHANGED <<scen, messages, now>>
  \/ Commit(1) /\ UNCHANGED <<scen, messages, now>>
  \/ Return(1) /\ UNCHANGED <<scen, messages, now>>
  \/ SendMessage(1)
  \/ EditMessage(1)
  \/ DeleteMessage(1)
  \/ TogglePinMessage(1)
  \/ CountPinned(1)
  \/ SaveMessage(1)
  \/ Tick

SpecChat == Init /\ [][ChatNext]_vars

\* Chat requests handled one at a time on one message of one group, with
\* reactions and read marks; the routes of these requests only authenticate,
\* so any user may send them, and the leader is the only member and sender.
ReactNext ==
  \/ StartCreate(1, MaxGroupsConc, {PUBLIC}) /\ UNCHANGED <<scen, messages, now>>
  \/ StartChat(1, [ChatRequests EXCEPT
                     !.ops = {"send", "edit", "softDelete", "pin", "react",
                              "read"}])
       /\ UNCHANGED <<scen, messages, now>>
  \/ Guard(1) /\ UNCHANGED <<scen, messages, now>>
  \/ CreateGroupDoc(1) /\ UNCHANGED <<scen, messages, now>>
  \/ CreateLeaderRow(1) /\ UNCHANGED <<scen, messages, now>>
  \/ Commit(1) /\ UNCHANGED <<scen, messages, now>>
  \/ Return(1) /\ UNCHANGED <<scen, messages, now>>
  \/ SendMessage(1)
  \/ EditMessage(1)
  \/ DeleteMessage(1)
  \/ TogglePinMessage(1)
  \/ CountPinned(1)
  \/ ReadMessage(1)
  \/ SaveMessage(1)

SpecReact == Init /\ [][ReactNext]_vars

\* Requests handled one at a time on one public group: its members come and
\* go (joinGroup, leaveGroup, removeMember), the group is deleted, and one
\* message is sent, edited and deleted.
ArchiveNext ==
  \/ StartCreate(1, MaxGroupsConc, {PUBLIC}) /\ UNCHANGED <<scen, messages, now>>
  \/ StartDelete(1, FALSE, ConcGroups) /\ UNCHANGED <<scen, messages, now>>
  \/ StartJoin(1, FALSE, ConcGroups, {NoCode}) /\ UNCHANGED <<scen, messages, now>>
  \/ StartLeave(1, FALSE, ConcGroups) /\ UNCHANGED <<scen, messages, now>>
  \/ StartRemove(1, FALSE, ConcGroups) /\ UNCHANGED <<scen, messages, now>>
  \/ StartChat(1, [ChatRequests EXCEPT !.ops = {"send", "edit", "softDelete"},
                                       !.users = Users,
                                       !.contents = Contents])
       /\ UNCHANGED <<scen, messages, now>>
  \/ Guard(1) /\ UNCHANGED <<scen, messages, now>>
  \/ CreateGroupDoc(1) /\ UNCHANGED <<scen, messages, now>>
  \/ CreateLeaderRow(1) /\ UNCHANGED <<scen, messages, now>>
  \/ DeleteReadGroup(1) /\ UNCHANGED <<scen, messages, now>>
  \/ DeleteSave(1) /\ UNCHANGED <<scen, messages, now>>
  \/ DeleteUpdateMany(1) /\ UNCHANGED <<scen, messages, now>>
  \/ JoinReadGroup(1) /\ UNCHANGED <<scen, messages, now>>
  \/ JoinReadMember(1) /\ UNCHANGED <<scen, messages, now>>
  \/ LeaveReadGroup(1) /\ UNCHANGED <<scen, messages, now>>
  \/ LeaveReadMember(1) /\ UNCHANGED <<scen, messages, now>>
  \/ ControllerLeaveRead(1) /\ UNCHANGED <<scen, messages, now>>
  \/ WriteMember(1) /\ UNCHANGED <<scen, messages, now>>
  \/ WriteGroup(1) /\ UNCHANGED <<scen, messages, now>>
  \/ Commit(1) /\ UNCHANGED <<scen, messages, now>>
  \/ Fail(1) /\ UNCHANGED <<scen, messages, now>>
  \/ Return(1) /\ UNCHANGED <<scen, messages, now>>
  \/ SendMessage(1)
  \/ EditMessage(1)
  \/ DeleteMessage(1)
  \/ SaveMessage(1)

SpecArchive == Init /\ [][ArchiveNext]_vars

\* Requests handled one at a time on one group with up to MaxMsgs messages
\* of its leader, which any user asks to pin and to unpin.
PinNext ==
  \/ StartCreate(1, MaxGroupsConc, {PUBLIC}) /\ UNCHANGED <<scen, messages, now>>
  \/ StartChat(1, [ChatRequests EXCEPT !.ops = {"send", "pin"},
                                       !.msgs = MaxMsgs])
       /\ UNCHANGED <<scen, messages, now>>
  \/ Guard(1) /\ UNCHANGED <<scen, messages, now>>
  \/ CreateGroupDoc(1) /\ UNCHANGED <<scen, messages, now>>
  \/ CreateLeaderRow(1) /\ UNCHANGED <<scen, messages, now>>
  \/ Commit(1) /\ UNCHANGED <<scen, messages, now>>
  \/ Return(1) /\ UNCHANGED <<scen, messages, now>>
  \/ SendMessage(1)
  \/ TogglePinMessage(1)
  \/ CountPinned(1)
  \/ SaveMessage(1)

SpecPin == Init /\ [][PinNext]_vars

\* The same runs with deleteMessage among the requests.
PinDeleteNext ==
  \/ StartCreate(1, MaxGroupsConc, {PUBLIC}) /\ UNCHANGED <<scen, messages, now>>
  \/ StartChat(1, [ChatRequests EXCEPT !.ops = {"send", "pin", "softDelete"},
                                       !.msgs = MaxMsgs])
       /\ UNCHANGED <<scen, messages, now>>
  \/ Guard(1) /\ UNCHANGED <<scen, messages, now>>
  \/ CreateGroupDoc(1) /\ UNCHANGED <<scen, messages, now>>
  \/ CreateLeaderRow(1) /\ UNCHANGED <<scen, messages, now>>
  \/ Commit(1) /\ UNCHANGED <<scen, messages, now>>
  \/ Return(1) /\ UNCHANGED <<scen, messages, now>>
  \/ SendMessage(1)
  \/ DeleteMessage(1)
  \/ TogglePinMessage(1)
  \/ CountPinned(1)
  \/ SaveMessage(1)

SpecPinDelete == Init /\ [][PinDeleteNext]_vars

\* Two requests at a time on one group with up to MaxMsgs messages of its
\* leader: the messages are sent one after another, the requests to pin and
\* to unpin overlap.
PinRaceNext ==
  \/ StartCreate(1, MaxGroupsConc, {PUBLIC}) /\ UNCHANGED <<scen, messages, now>>
  \/ /\ AllIdle
     /\ StartChat(1, [ChatRequests EXCEPT !.ops = {"send"},
                                          !.msgs = MaxMsgs])
     /\ UNCHANGED <<scen, messages, now>>
  \/ \E p \in Procs :
       /\ StartChat(p, [ChatRequests EXCEPT !.ops = {"pin"},
                                            !.msgs = MaxMsgs])
       /\ UNCHANGED <<scen, messages, now>>
  \/ Guard(1) /\ UNCHANGED <<scen, messages, now>>
  \/ CreateGroupDoc(1) /\ UNCHANGED <<scen, messages, now>>
  \/ CreateLeaderRow(1) /\ UNCHANGED <<scen, messages, now>>
  \/ Commit(1) /\ UNCHANGED <<scen, messages, now>>
  \/ \E p \in Procs : Return(p) /\ UNCHANGED <<scen, messages, now>>
  \/ SendMessage(1)
  \/ \E p \in Procs : TogglePinMessage(p)
  \/ \E p \in Procs : CountPinned(p)
  \/ \E p \in Procs : SaveMessage(p)

SpecPinRace == Init /\ [][PinRaceNext]_vars

\* Two users' requests at a time on one message of one group: the message is
\* sent first; then the requests of user 1 to react with one emoji and to
\* mark the message as read overlap with those of user 2.
ReactRaceNext ==
  \/ StartCreate(1, MaxGroupsConc, {PUBLIC}) /\ UNCHANGED <<scen, messages, now>>
  \/ /\ AllIdle
     /\ StartChat(1, [ChatRequests EXCEPT !.ops = {"send"},
                                          !.emojis = {1},
                                          !.reacts = NumReactors])
     /\ UNCHANGED <<scen, messages, now>>
  \/ \E p \in Procs :
       /\ StartChat(p, [ChatRequests EXCEPT !.ops = {"react", "read"},
                                            !.users = {p},
                                            !.emojis = {1},
                                            !.reacts = NumReactors])
       /\ UNCHANGED <<scen, messages, now>>
  \/ Guard(1) /\ UNCHANGED <<scen, messages, now>>
  \/ CreateGroupDoc(1) /\ UNCHANGED <<scen, messages, now>>
  \/ CreateLeaderRow(1) /\ UNCHANGED <<scen, messages, now>>
  \/ Commit(1) /\ UNCHANGED <<scen, messages, now>>
  \/ \E p \in Procs : Return(p) /\ UNCHANGED <<scen, messages, now>>
  \/ SendMessage(1)
  \/ \E p \in Procs : ReadMessage(p)
  \/ \E p \in Procs : SaveMessage(p)

SpecReactRace == Init /\ [][ReactRaceNext]_vars

\* Requests handled one at a time on two groups: up to ReplyMsgs messages are
\* sent by members, as replies to any message id or to none, and deleted.
ReplyNext ==
  \/ StartCreate(1, MaxGroups, {PUBLIC}) /\ UNCHANGED <<scen, messages, now>>
  \/ StartChat(1, [ChatRequests EXCEPT !.ops = {"send", "softDelete"},
                                       !.groups = GroupIds,
                                       !.replies = 0..ReplyMsgs,
                                       !.msgs = ReplyMsgs])
       /\ UNCHANGED <<scen, messages, now>>
  \/ Guard(1) /\ UNCHANGED <<scen, messages, now>>
  \/ CreateGroupDoc(1) /\ UNCHANGED <<scen, messages, now>>
  \/ CreateLeaderRow(1) /\ UNCHANGED <<scen, messages, now>>
  \/ Commit(1) /\ UNCHANGED <<scen, messages, now>>
  \/ Return(1) /\ UNCHANGED <<scen, messages, now>>
  \/ SendMessage(1)
  \/ DeleteMessage(1)
  \/ SaveMessage(1)

SpecReply == Init /\ [][ReplyNext]_vars

\* ---------------------------------------------------------------- listings
\* .sort({ createdAt: -1 }): the messages of S, newest first (messages created
\* within one unit of the clock are in the order of their creation).
RECURSIVE NewestFirst(_)
NewestFirst(S) ==
  IF S = {} THEN <<>>
  ELSE LET m == CHOOSE x \in S :
                  \A y \in S :
                    \/ messages[y].createdAt < messages[x].createdAt
                    \/ messages[y].createdAt = messages[x].createdAt /\ y <= x
       IN <<m>> \o NewestFirst(S \ {m})

\* .skip((page - 1) * limit).limit(limit)
Block(seq, page, limit) ==
  SubSeq(seq, (page - 1) * limit + 1,
         IF page * limit < Len(seq) THEN page * limit ELSE Len(seq))

\* Array.prototype.reverse
Reverse(seq) == [i \in 1..Len(seq) |-> seq[Len(seq) + 1 - i]]

\* { groupId, isDeleted: false }
Live(g) == {m \in Stored : messages[m].groupId = g /\ ~messages[m].isDeleted}

\* getMessages: the query.  query._id is assigned for before and then again
\* for after, so with both given only after is left.
MessagesQuery(g, before, after) ==
  {m \in Live(g) : IF after # 0 THEN m > after
                   ELSE IF before # 0 THEN m < before
                   ELSE TRUE}

\* .populate({ path: 'replyTo', select: 'content sender' }): the message each
\* listed message replies to (0: none), read by its id alone.
Populated(list) == [i \in 1..Len(list) |-> messages[list[i]].replyTo]

\* getMessages: validation of the query string, countDocuments, find with
\* sort, skip and limit, populate, and the reversed block in the response.
GetMessages(p) ==
  LET r == proc[p]
      found == MessagesQuery(r.g, r.before, r.after)
      list == Reverse(Block(NewestFirst(found), r.page, r.limit))
  IN /\ r.op = "messages" /\ r.pc = "mList"
     /\ IF r.page < 1 \/ r.limit < 1 \/ r.limit > LimitMax
        THEN Answer(p, BadRequest, messages)
        ELSE /\ proc' = [proc EXCEPT ![p] =
                  [Done(r, OK) EXCEPT
                     !.list = list, !.quoted = Populated(list),
                     !.total = Cardinality(found)]]
             /\ UNCHANGED <<groups, members, scen, messages, now>>

\* getPinnedMessages
GetPinnedMessages(p) ==
  LET r == proc[p]
      found == {m \in Live(r.g) : messages[m].isPinned}
  IN /\ r.op = "pinned" /\ r.pc = "mPinned"
     /\ proc' = [proc EXCEPT ![p] =
          [Done(r, OK) EXCEPT !.list = NewestFirst(found),
                              !.total = Cardinality(found)]]
     /\ UNCHANGED <<groups, members, scen, messages, now>>

\* searchMessages: content: { $regex: query }; a content is one word here
\* and the query matches the messages with that word.  No query (0) is
\* refused; page and limit are taken from the query string as they are.
SearchMessages(p) ==
  LET r == proc[p]
      found == {m \in Live(r.g) : messages[m].content = r.txt}
  IN /\ r.op = "msearch" /\ r.pc = "mSearch"
     /\ IF r.txt = 0 THEN Answer(p, BadRequest, messages)
        ELSE /\ proc' = [proc EXCEPT ![p] =
                  [Done(r, OK) EXCEPT
                     !.list = Block(NewestFirst(found), r.page, r.limit),
                     !.total = Cardinality(found)]]
             /\ UNCHANGED <<groups, members, scen, messages, now>>

\* A listing arrives at its handler: getMessages with page, limit and the
\* cursors before and after (0: not given), getPinnedMessages, or
\* searchMessages with a query.
StartList(p, GS) ==
  /\ IsIdle(p)
  /\ \/ \E g \in GS, page \in 1..MaxPage, limit \in {2, LimitMax + 1},
           before \in {0, ListMsgs}, after \in {0, 1} :
          Goto(p, [Begin(p, "messages", FALSE, g, 1, 1) EXCEPT
                     !.page = page, !.limit = limit, !.before = before,
                     !.after = after])
     \/ \E g \in GS : Goto(p, Begin(p, "pinned", FALSE, g, 1, 1))
     \/ \E g \in GS, c \in 0..MaxContent :
          Goto(p, [Begin(p, "msearch", FALSE, g, 1, 1) EXCEPT
                     !.txt = c, !.page = 1, !.limit = ListMsgs])

\* Requests handled one at a time on two groups: up to ListMsgs messages are
\* sent (as a reply to the first message or to none), pinned and deleted, and
\* listed with every page and limit and with the cursors of StartList.
ListNext ==
  \/ StartCreate(1, MaxGroups, {PUBLIC}) /\ UNCHANGED <<scen, messages, now>>
  \/ StartChat(1, [ChatRequests EXCEPT !.ops = {"send", "softDelete", "pin"},
                                       !.users = {1},
                                       !.groups = GroupIds,
                                       !.replies = {0, 1},
                                       !.msgs = ListMsgs])
       /\ UNCHANGED <<scen, messages, now>>
  \/ StartList(1, GroupIds) /\ UNCHANGED <<scen, messages, now>>
  \/ Guard(1) /\ UNCHANGED <<scen, messages, now>>
  \/ CreateGroupDoc(1) /\ UNCHANGED <<scen, messages, now>>
  \/ CreateLeaderRow(1) /\ UNCHANGED <<scen, messages, now>>
  \/ Commit(1) /\ UNCHANGED <<scen, messages, now>>
  \/ Return(1) /\ UNCHANGED <<scen, messages, now>>
  \/ SendMessage(1)
  \/ DeleteMessage(1)
  \/ TogglePinMessage(1)
  \/ CountPinned(1)
  \/ SaveMessage(1)
  \/ GetMessages(1)
  \/ GetPinnedMessages(1)
  \/ SearchMessages(1)

SpecList == Init /\ [][ListNext]_vars

\* ==================================================================== claims
Db == <<groups, members>>

ExistingGroups == {g \in GroupIds : groups[g].exists}

\* ------------------------------------------------------------------------ C1
\* C1: with the requests handled one at a time, in every state every group's
\* currentMemberCount equals the number of its membership rows whose status
\* is ACTIVE.
C1_CountEqualsActiveRows ==
  \A g \in ExistingGroups : groups[g].currentMemberCount = ActiveCount(g)

\* A member has just left a group that still has two ACTIVE members.
C1_Witness ==
  \E p \in Procs :
    /\ proc[p].pc = "done" /\ proc[p].op \in LeaveOps /\ proc[p].res = OK
    /\ groups[proc[p].g].currentMemberCount = 2
    /\ ActiveCount(proc[p].g) = 2

\* ------------------------------------------------------------------------ C2
\* C2: under concurrent requests, whenever no request is in flight every
\* group's currentMemberCount equals its number of ACTIVE membership rows.
C2_CountEqualsActiveRowsAtRest ==
  Quiescent =>
    \A g \in ExistingGroups : groups[g].currentMemberCount = ActiveCount(g)

\* ------------------------------------------------------------------------ C3
\* C3: under concurrent joins, in every state neither currentMemberCount nor
\* the number of ACTIVE rows of a group exceeds its capacity.
C3_NeverAboveCapacity ==
  \A g \in ExistingGroups :
    /\ groups[g].currentMemberCount <= groups[g].capacity
    /\ ActiveCount(g) <= groups[g].capacity

\* ------------------------------------------------------------------------ C4
\* A join or addMember for a full group, by its handler or for a user who is
\* not an ACTIVE member, ends with Forbidden and changes nothing.
C4_FullGroupRefuses(p) ==
  LET r == proc[p]
      grp == groups[r.g]
  IN (/\ Completed(p) /\ r.op \in JoinOps /\ grp.exists
      /\ grp.currentMemberCount >= grp.capacity
      /\ (r.pc \notin GuardPcs \/ members[r.g][r.t].status # ACTIVE))
     => (proc'[p].res = Forbidden /\ UNCHANGED Db)

\* The leader's updateGroup with a capacity below currentMemberCount ends
\* with BadRequest and changes nothing.
C4_LowCapacityRefused(p) ==
  LET r == proc[p]
      grp == groups[r.g]
  IN (/\ Completed(p) /\ r.op = "update" /\ grp.exists /\ grp.leader = r.u
      /\ r.cap # 0 /\ r.cap < grp.currentMemberCount)
     => (proc'[p].res = BadRequest /\ UNCHANGED Db)

C5_LeaderStays(p) ==
  LET r == proc[p]
      grp == groups[r.g]
  IN (/\ r.op \in LeaveOps /\ r.pc \in {"lGrp", "tRead"}
      /\ grp.exists /\ grp.leader = r.t
      /\ proc'[p] # r)
     => (/\ proc'[p].pc = "done" /\ proc'[p].res = BadRequest
         /\ UNCHANGED Db)

\* C5: in every state of concurrent requests (deleteGroup among them) the
\* leader of every group that is not soft-deleted holds a membership row with
\* role LEADER and status ACTIVE; leave by the leader and removeMember of the
\* leader are rejected with BadRequest and change nothing.
C5_LeaderHoldsActiveRow ==
  /\ [](\A g \in ExistingGroups :
          groups[g].isActive =>
            members[g][groups[g].leader] = [role |-> LEADER, status |-> ACTIVE])
  /\ [][\A p \in Procs : C5_LeaderStays(p)]_vars

\* The leader of a group that is not soft-deleted has just been refused.
C5_Witness ==
  \E p \in Procs :
    /\ proc[p].pc = "done" /\ proc[p].op \in LeaveOps
    /\ proc[p].res = BadRequest
    /\ groups[proc[p].g].isActive
    /\ groups[proc[p].g].leader = proc[p].t

\* ------------------------------------------------------------------------ C6
\* A join that ends with an error leaves both collections as they were.
C6_FailedJoinChangesNothing(p) ==
  (Completed(p) /\ proc[p].op \in JoinOps /\ proc'[p].res # OK)
    => UNCHANGED Db

\* A step of a join changes the collections only by making the membership
\* ACTIVE and adding 1 to the counter, both or neither.
C6_BothOrNeither(p) ==
  LET r == proc[p]
      joined == /\ members[r.g][r.t].status # ACTIVE
                /\ members'[r.g][r.t].status = ACTIVE
      incremented == groups'[r.g].currentMemberCount
                       = groups[r.g].currentMemberCount + 1
  IN (InFlight(p) /\ r.op \in JoinOps)
     => /\ joined <=> incremented
        /\ members' # members => joined
        /\ groups' # groups => incremented

C7_ActiveMemberGetsConflict ==
  [][\A p \in Procs :
       (/\ Completed(p) /\ proc[p].op \in {"join", "mjoin"}
        /\ members[proc[p].g][proc[p].t].status = ACTIVE)
       => (proc'[p].res = Conflict /\ UNCHANGED Db)]_vars

\* ------------------------------------------------------------------------ C8
\* C8: a join request (of either join handler) makes a user an ACTIVE member
\* of a private group only if the code it supplies is the group's joinCode.
C8_PrivateJoinNeedsCode ==
  [][\A p \in Procs :
       LET r == proc[p] IN
       (/\ InFlight(p) /\ r.op \in {"join", "mjoin"}
        /\ groups[r.g].visibility = PRIVATE
        /\ members[r.g][r.t].status # ACTIVE
        /\ members'[r.g][r.t].status = ACTIVE)
       => (r.code # NoCode /\ r.code = groups[r.g].joinCode)]_vars

\* ------------------------------------------------------------------------ C9
\* The counts of the scenario: 1 after the creation and after A left, 2 after
\* A joined, after B was refused and after B joined.
C9_Counts ==
  LET grp == groups[1] IN
  /\ scen.stage \in 1..5 => grp.capacity = 2
  /\ scen.stage \in {1, 4} => grp.currentMemberCount = 1
  /\ scen.stage \in {2, 3, 5} => grp.currentMemberCount = 2
  /\ scen.stage \in {2, 3} => members[1][scen.a].status = ACTIVE
  /\ scen.stage \in {4, 5} => members[1][scen.a] = NoRow
  /\ scen.stage = 5 => members[1][scen.b].status = ACTIVE

\* While the group is full a join by a non-member is refused with Forbidden
\* and changes nothing; while it has a free slot (after the creation, after A
\* left) a join by a non-member with an acceptable code succeeds, unless the
\* persistence layer fails.
C9_Joins(p) ==
  LET r == proc[p] IN
  (/\ Completed(p) /\ r.op \in {"join", "mjoin"} /\ r.g = 1
   /\ members[1][r.t].status # ACTIVE)
  => /\ scen.stage \in {2, 3} => (proc'[p].res = Forbidden /\ UNCHANGED Db)
     /\ (/\ scen.stage \in {1, 4}
         /\ r.op = "join" /\ groups[1].visibility = PRIVATE
              => r.code = groups[1].joinCode)
        => \/ proc'[p].res = OK
           \/ proc'[p].res = Internal /\ proc'[p].at \in TxPcs

\* C9: the capacity scenario.  Created with capacity 2 the group counts 1; A
\* joins and it counts 2; B's join fails with Forbidden and changes nothing;
\* A leaves and it counts 1; B's next join succeeds and it counts 2.
C9_CapacityScenario ==
  /\ []C9_Counts
  /\ [][\A p \in Procs : C9_Joins(p)]_vars

\* The scenario has run to its end: B has joined in the slot A freed.
C9_Witness == scen.stage = 5 /\ scen.a # scen.b /\ scen.b # 0

\* ----------------------------------------------------------------------- C10
\* What the handler of a leave or removeMember does to the collections.
C10_Leave(p) ==
  LET r == proc[p]
      g == r.g
      t == r.t
  IN (InFlight(p) /\ r.op \in LeaveOps /\ r.pc \notin GuardPcs)
     => /\ ~Completed(p) => UNCHANGED Db
        /\ (Completed(p) /\ proc'[p].res = OK)
           => /\ members[g][t].status = ACTIVE
              /\ members' = [members EXCEPT ![g][t] = NoRow]
              /\ groups[g].currentMemberCount >= 1
              /\ groups' = [groups EXCEPT ![g].currentMemberCount = @ - 1]
        /\ (Completed(p) /\ proc'[p].res # OK) => UNCHANGED Db
        /\ (/\ Completed(p) /\ groups[g].exists /\ groups[g].leader # t
            /\ members[g][t].status # ACTIVE)
           => proc'[p].res = NotFound

C11_AppearsWhole(g) ==
  (~groups[g].exists /\ groups'[g].exists)
  => /\ \E p \in Procs :
          /\ proc[p].op = "create" /\ proc[p].pc = "commit"
          /\ groups'[g].leader = proc[p].u
          /\ proc'[p].pc = "done" /\ proc'[p].res = OK
     /\ groups'[g].currentMemberCount = 1
     /\ groups'[g].isActive
     /\ members'[g] =
          [u \in Users |-> IF u = groups'[g].leader
                           THEN [role |-> LEADER, status |-> ACTIVE]
                           ELSE NoRow]

\* A createGroup that ends with an error persists nothing.
C11_FailedCreateChangesNothing(p) ==
  (Completed(p) /\ proc[p].op = "create" /\ proc'[p].res # OK)
    => UNCHANGED Db

\* C11: createGroup is atomic.  In every state of concurrent requests a
\* group exists together with its leader's row and no row exists for a group
\* that does not; the group appears in one step with exactly the creator's
\* row (LEADER, ACTIVE) and currentMemberCount 1; a createGroup one of whose
\* writes fails persists neither the group nor the row.
C11_CreateIsAtomic ==
  /\ [](\A g \in GroupIds :
          IF groups[g].exists
          THEN members[g][groups[g].leader] # NoRow
          ELSE \A u \in Users : members[g][u] = NoRow)
  /\ [][/\ \A g \in GroupIds : C11_AppearsWhole(g)
        /\ \A p \in Procs : C11_FailedCreateChangesNothing(p)]_vars

\* One createGroup has failed after its first write and nothing of it is
\* persisted; another has just committed its group.
C11_Witness ==
  \E p, q \in Procs :
    /\ proc[p].pc = "done" /\ proc[p].op = "create" /\ proc[p].res = OK
    /\ groups[proc[p].g].currentMemberCount = 1
    /\ proc[q].pc = "done" /\ proc[q].op = "create"
    /\ proc[q].res = Internal /\ proc[q].at \in {"cMem", "commit"}
    /\ NumGroups = 1

\* C12: deleteGroup by the leader sets isActive=false and every membership
\* row of the group to INACTIVE in one commit; afterwards the group is not
\* listed, and join and addMember on it fail with NotFound.  Stated of the
\* requests that follow the delete: a join, or an addMember asked by the
\* leader, on a soft-deleted group ends with NotFound and changes nothing.
C12_Join(p) ==
  LET r == proc[p] IN
  (Completed(p) /\ r.op \in JoinOps
     /\ groups[r.g].exists /\ ~groups[r.g].isActive
     /\ (r.op = "add" => r.u = groups[r.g].leader))
    => proc'[p].res = NotFound /\ UNCHANGED Db

C12_JoinOfDeletedIsNotFound == [][\A p \in Procs : C12_Join(p)]_vars

\* C13: updateGroup and deleteGroup take effect only for the group's leader,
\* addMember and removeMember only for the leader or an ACTIVE admin; a request
\* of any other requester on an existing group ends with Forbidden, and the
\* group and its membership rows are as before.
C13_Entitled(r) ==
  \/ groups[r.g].leader = r.u
  \/ /\ r.op \in {"add", "remove"}
     /\ members[r.g][r.u] = [role |-> ADMIN, status |-> ACTIVE]

C13_Gated(p) ==
  LET r == proc[p] IN
  (r.op \in {"update", "delete", "add", "remove"} /\ groups[r.g].exists
     /\ ~C13_Entitled(r))
    => /\ UNCHANGED Db
       /\ Completed(p) => proc'[p].res = Forbidden

C13_RoleGating == [][\A p \in Procs : C13_Gated(p)]_vars

\* An admin who is not the leader has added a member.
C13_Witness ==
  \E g \in ExistingGroups, u \in Users :
    /\ proc[1].pc = "done" /\ proc[1].op = "add" /\ proc[1].g = g
    /\ proc[1].res = OK /\ proc[1].u # groups[g].leader
    /\ members[g][proc[1].u] = [role |-> ADMIN, status |-> ACTIVE]
    /\ members[g][proc[1].t].status = ACTIVE

\* C14: updateGroup on a group that is missing or soft-deleted ends with
\* NotFound and changes nothing.  Stated of the requests a leader check cannot
\* refuse: the group is missing, or the requester is the leader of the
\* soft-deleted group.
C14_Update(p) ==
  LET r == proc[p] IN
  (r.op = "update"
     /\ \/ ~groups[r.g].exists
        \/ ~groups[r.g].isActive /\ groups[r.g].leader = r.u)
    => /\ UNCHANGED Db
       /\ Completed(p) => proc'[p].res = NotFound

C14_UpdateOfDeletedIsNotFound == [][\A p \in Procs : C14_Update(p)]_vars

\* C15: a group has a joinCode exactly when its visibility is private, also
\* after updateGroup has changed the visibility.
C15_JoinCodeIffPrivate ==
  \A g \in ExistingGroups :
    groups[g].joinCode # NoCode <=> groups[g].visibility = PRIVATE

\* C16: getGroupById and getGroupMembers of a private group answer only the
\* leader and the ACTIVE members; any other requester, the unauthenticated
\* one included, gets Forbidden.
C16_Read(p) ==
  LET r == proc[p] IN
  (Completed(p) /\ r.op \in {"get", "members"}
     /\ groups[r.g].exists /\ groups[r.g].visibility = PRIVATE
     /\ r.u # groups[r.g].leader
     /\ (r.u = 0 \/ members[r.g][r.u].status # ACTIVE))
    => proc'[p].res = Forbidden

C16_PrivateReadsAreGated == [][\A p \in Procs : C16_Read(p)]_vars

\* C17: whatever operation returns a group (get, list, search, create,
\* update, join), the response carries the group's joinCode only when the
\* requester is the leader or an ACTIVE member of that group.
C17_JoinCodeOnlyToMembers ==
  \A p \in Procs : \A g \in ExistingGroups :
    (proc[p].pc = "done" /\ ResponseJoinCode(p, g) # NoCode)
      => /\ proc[p].u # 0
         /\ \/ groups[g].leader = proc[p].u
            \/ members[g][proc[p].u].status = ACTIVE

\* C18: there is at most one membership row per (group, user), also when two
\* joins of the same user, or a join and an addMember of that user, run
\* concurrently: at most one of them succeeds.  Stated of the step that makes
\* a join or addMember succeed: it turns a membership that was not ACTIVE
\* into an ACTIVE one, so a second success needs the row to have left ACTIVE
\* in between.
C18_Join(p) ==
  LET r == proc[p] IN
  (Completed(p) /\ r.op \in JoinOps /\ proc'[p].res = OK)
    => /\ members[r.g][r.t].status # ACTIVE
       /\ members'[r.g][r.t].status = ACTIVE

C18_OneJoinPerMembership == [][\A p \in AllProcs : C18_Join(p)]_vars

\* C19: editMessage changes a message only for its sender, deleteMessage only
\* for its sender or the leader of its group, togglePinMessage only for the
\* leader of its group; any other requester gets Forbidden and the message is
\* as before.
C19_Entitled(r, msg) ==
  CASE r.op = "edit" -> msg.sender = r.u
    [] r.op = "softDelete" ->
         msg.sender = r.u \/ groups[msg.groupId].leader = r.u
    [] r.op = "pin" -> groups[msg.groupId].leader = r.u

C19_Gated(p) ==
  LET r == proc[p] IN
  (r.op \in {"edit", "softDelete", "pin"} /\ messages[r.m].exists
     /\ ~C19_Entitled(r, messages[r.m]))
    => /\ UNCHANGED messages
       /\ Completed(p) => proc'[p].res = Forbidden

C19_MessageAuthorization == [][\A p \in Procs : C19_Gated(p)]_vars

\* A member who is neither the sender nor the leader has been refused the
\* deletion of a message.
C19_Witness ==
  \E m \in Stored :
    /\ proc[1].pc = "done" /\ proc[1].op = "softDelete" /\ proc[1].m = m
    /\ proc[1].res = Forbidden
    /\ proc[1].u # messages[m].sender
    /\ proc[1].u # groups[messages[m].groupId].leader
    /\ members[messages[m].groupId][proc[1].u].status = ACTIVE
    /\ ~messages[m].isDeleted

\* C20: an edit by the sender of a message that is not deleted succeeds if
\* and only if now - createdAt is less than fifteen minutes; at fifteen
\* minutes exactly and later it is rejected and content, isEdited and
\* editHistory are as before.
C20_Edit(p) ==
  LET r == proc[p]
      msg == messages[r.m]
  IN /\ (r.op = "edit" /\ r.pc = "mEdit" /\ proc'[p] # r /\ msg.exists
           /\ msg.sender = r.u /\ ~msg.isDeleted)
          => IF now - msg.createdAt < fifteenMinutes
             THEN proc'[p].pc = "mSave"
             ELSE /\ proc'[p].pc = "done" /\ proc'[p].res # OK
                  /\ UNCHANGED messages
     /\ (r.op = "edit" /\ r.pc = "mSave" /\ proc'[p] # r)
          => proc'[p].res = OK

C20_EditWindowIsFifteenMinutes == [][\A p \in Procs : C20_Edit(p)]_vars

\* C21: editHistory is an append-only log.  With the requests handled one at
\* a time, a step changes the editHistory of a message only by appending one
\* entry, and only when an edit of that message answers OK; every edit that
\* answers OK appends one entry, which is the content the message had just
\* before, leaves the message with the requested content and isEdited true;
\* with k entries in editHistory, isEdited is true iff k > 0.
C21_Step(m) ==
  LET old == messages[m]
      new == messages'[m]
      edits == {p \in Procs : /\ proc[p].op = "edit" /\ proc[p].m = m
                              /\ proc[p].pc # "done" /\ proc'[p].pc = "done"
                              /\ proc'[p].res = OK}
  IN /\ \/ new.editHistory = old.editHistory /\ edits = {}
        \/ /\ new.editHistory = Append(old.editHistory, old.content)
           /\ \E p \in edits : new.content = proc[p].txt
           /\ new.isEdited
     /\ new.isEdited <=> Len(new.editHistory) > 0

C21_EditHistoryIsAppendOnly == [][\A m \in MsgIds : C21_Step(m)]_vars

\* A message has been edited twice: its history holds its first content and
\* then the content of the first edit.
C21_Witness ==
  \E m \in Stored :
    /\ Len(messages[m].editHistory) = 2
    /\ messages[m].editHistory[1] # messages[m].editHistory[2]
    /\ messages[m].content = messages[m].editHistory[1]
    /\ messages[m].isEdited

\* C22: once a message is soft-deleted, every later edit, react and togglePin
\* on it is rejected: no step of such a request changes the content, the
\* reactions or isPinned of the message, and the request does not answer OK.
C22_Rejected(p) ==
  LET r == proc[p]
      msg == messages[r.m]
  IN (r.op \in {"edit", "react", "pin"} /\ InFlight(p) /\ proc'[p] # r
        /\ msg.exists /\ msg.isDeleted)
       => /\ messages'[r.m].content = msg.content
          /\ messages'[r.m].reactions = msg.reactions
          /\ messages'[r.m].isPinned = msg.isPinned
          /\ proc'[p].pc = "done" => proc'[p].res # OK

C22_DeletedMessageRejectsChanges == [][\A p \in Procs : C22_Rejected(p)]_vars

\* C23: deletion is terminal and soft.  No step (of deleteMessage,
\* deleteGroup, leaveGroup, removeMember or any other request) removes a
\* stored message, sets its isDeleted back to false or clears its content;
\* the content of a message changes only by an edit.
C23_Kept(m) ==
  LET old == messages[m]
      new == messages'[m]
  IN old.exists
       => /\ new.exists
          /\ old.isDeleted => new.isDeleted
          /\ new.content \in Contents
          /\ new.content # old.content
               => \E p \in Procs : proc[p].op = "edit" /\ proc[p].m = m
          /\ new.groupId = old.groupId /\ new.sender = old.sender

C23_DeletionIsTerminalAndSoft == [][\A m \in MsgIds : C23_Kept(m)]_vars

\* A message of a member who is not the leader was edited, then deleted, and
\* its group was deleted: no membership is active any more, and the record
\* and its content are still there.
C23_Witness ==
  \E m \in Stored :
    LET msg == messages[m] IN
    /\ msg.isDeleted /\ msg.isEdited /\ msg.content \in Contents
    /\ msg.sender # groups[msg.groupId].leader
    /\ members[msg.groupId][msg.sender].status = INACTIVE
    /\ ~groups[msg.groupId].isActive
    /\ \A u \in Users : members[msg.groupId][u].status # ACTIVE
    /\ proc[1].pc = "done" /\ proc[1].op = "delete" /\ proc[1].res = OK

\* C24: with the togglePin requests handled one at a time, a group never has
\* more than 5 pinned messages: the leader's request to pin a message while 5
\* are pinned answers BadRequest and changes nothing, and with fewer than 5
\* pinned (so also after one was unpinned) it pins the message and answers
\* OK; unpinning always succeeds.
C24_Pinned(g) ==
  {m \in MsgIds : messages[m].exists /\ messages[m].groupId = g
                    /\ messages[m].isPinned}

C24_Toggle(p) ==
  LET r == proc[p]
      msg == messages[r.m]
      full == Cardinality(C24_Pinned(msg.groupId)) >= MaxPinned
  IN (r.op = "pin" /\ InFlight(p) /\ proc'[p] # r /\ msg.exists
        /\ groups[msg.groupId].leader = r.u)
       => IF ~msg.isPinned /\ full
          THEN /\ r.pc = "mCount" => proc'[p].pc = "done"
               /\ proc'[p].pc = "done" => proc'[p].res = BadRequest
               /\ UNCHANGED messages
          ELSE /\ proc'[p].pc = "done"
                    => /\ proc'[p].res = OK
                       /\ messages' = [messages EXCEPT
                                         ![r.m].isPinned = ~msg.isPinned]
               /\ proc'[p].pc # "done" => UNCHANGED messages

C24_AtMostFivePinned ==
  [][/\ \A p \in Procs : C24_Toggle(p)
     /\ \A g \in GroupIds :
          Cardinality({m \in MsgIds : /\ messages'[m].exists
                                      /\ messages'[m].groupId = g
                                      /\ messages'[m].isPinned}) <= MaxPinned]_vars

\* Five messages are pinned and the leader's request to pin a sixth one has
\* been answered BadRequest.
C24_Witness ==
  /\ proc[1].pc = "done" /\ proc[1].op = "pin" /\ proc[1].res = BadRequest
  /\ messages[proc[1].m].exists /\ ~messages[proc[1].m].isPinned
  /\ Cardinality(C24_Pinned(messages[proc[1].m].groupId)) = MaxPinned

\* C25: the pin limit holds under concurrency: while the leader's requests to
\* pin several unpinned messages overlap, no group has more than 5 pinned
\* messages.
C25_PinLimitUnderConcurrency ==
  \A g \in GroupIds :
    Cardinality({m \in Stored : messages[m].groupId = g
                                  /\ messages[m].isPinned}) <= MaxPinned

\* C26: in every reachable state, also while requests overlap, the reactions
\* of each message hold at most one entry per emoji, no entry has an empty
\* list of users, and no user appears twice in one entry.
C26_ReactionsWellFormed ==
  \A m \in Stored :
    LET rs == messages[m].reactions IN
    /\ \A i, j \in DOMAIN rs : rs[i].emoji = rs[j].emoji => i = j
    /\ \A i \in DOMAIN rs :
         /\ rs[i].users # <<>>
         /\ \A k, l \in DOMAIN rs[i].users :
              rs[i].users[k] = rs[i].users[l] => k = l

\* C27: react is a toggle.  A react of user u with emoji e that is saved
\* takes u out of the users of e if u was among them and puts u among them
\* otherwise, leaves the users of every other emoji and everything else in
\* the message as they were, and leaves an entry for exactly the emojis that
\* have users; so a second react(m, u, e) right after the first restores the
\* reactions (no entry for e again if there was none before).
C27_UsersOf(rs, e) ==
  UNION {{rs[i].users[k] : k \in DOMAIN rs[i].users} :
           i \in {j \in DOMAIN rs : rs[j].emoji = e}}

C27_Toggle(p) ==
  LET r == proc[p]
      old == messages[r.m]
      new == messages'[r.m]
      was == C27_UsersOf(old.reactions, r.emoji)
  IN (r.op = "react" /\ InFlight(p) /\ proc'[p] # r /\ old.exists)
       => IF r.pc = "mReact"
          THEN proc'[p].pc = "mSave" /\ UNCHANGED messages
          ELSE /\ proc'[p].pc = "done" /\ proc'[p].res = OK
               /\ C27_UsersOf(new.reactions, r.emoji) =
                    IF r.u \in was THEN was \ {r.u} ELSE was \cup {r.u}
               /\ \A e \in Emojis \ {r.emoji} :
                    C27_UsersOf(new.reactions, e) = C27_UsersOf(old.reactions, e)
               /\ \A e \in Emojis :
                    Cardinality({i \in DOMAIN new.reactions :
                                   new.reactions[i].emoji = e})
                      = IF C27_UsersOf(new.reactions, e) = {} THEN 0 ELSE 1
               /\ [new EXCEPT !.reactions = old.reactions] = old
               /\ \A m \in MsgIds \ {r.m} : messages'[m] = messages[m]

C27_ReactIsAToggle == [][\A p \in Procs : C27_Toggle(p)]_vars

\* A user's second react with an emoji has been saved: the entry of the
\* emoji is gone again, and the other user's reaction with the other emoji
\* is still there.
C27_Witness ==
  LET r == proc[1]
      rs == messages[r.m].reactions
  IN /\ r.pc = "done" /\ r.op = "react" /\ r.res = OK /\ r.at = "mSave"
     /\ \A i \in DOMAIN rs : rs[i].emoji # r.emoji
     /\ \E e \in Emojis \ {r.emoji} :
          C27_UsersOf(rs, e) # {} /\ r.u \notin C27_UsersOf(rs, e)

\* C28: markRead is idempotent.  With the requests handled one at a time, a
\* markRead of a user who is in readBy already answers OK and changes
\* nothing, the first markRead of a user appends them to readBy and changes
\* nothing else; no step takes a user out of readBy, a user is in readBy at
\* most once, and the readCount of getReadStatus is the number of distinct
\* users in readBy.
C28_Readers(msg) == {msg.readBy[i] : i \in DOMAIN msg.readBy}

C28_Mark(p) ==
  LET r == proc[p]
      old == messages[r.m]
      new == messages'[r.m]
  IN (r.op = "read" /\ InFlight(p) /\ proc'[p] # r /\ old.exists)
       => IF r.u \in C28_Readers(old)
          THEN /\ proc'[p].pc = "done" /\ proc'[p].res = OK
               /\ UNCHANGED messages
          ELSE IF r.pc = "mRead"
          THEN proc'[p].pc = "mSave" /\ UNCHANGED messages
          ELSE /\ proc'[p].pc = "done" /\ proc'[p].res = OK
               /\ messages' = [messages EXCEPT
                                 ![r.m].readBy = Append(old.readBy, r.u)]

C28_MarkReadIsIdempotent ==
  [][/\ \A p \in Procs : C28_Mark(p)
     /\ \A m \in MsgIds :
          /\ C28_Readers(messages[m]) \subseteq C28_Readers(messages'[m])
          /\ GetReadStatus(messages'[m]).readCount
               = Cardinality(C28_Readers(messages'[m]))]_vars

\* Both users have marked the message as read and a second markRead of one
\* of them has been answered: readBy holds each of them once.
C28_Witness ==
  LET r == proc[1] IN
  /\ r.pc = "done" /\ r.op = "read" /\ r.res = OK /\ r.at = "mRead"
  /\ messages[r.m].exists
  /\ C28_Readers(messages[r.m]) = Reactors
  /\ Len(messages[r.m].readBy) = NumReactors

\* C29: message mutations are atomic per document.  While the react and
\* markRead requests of two users on one message (with one entry per emoji)
\* overlap, a request that is saved and answers OK adds its own effect to
\* what is stored at that time (its user's reaction with the emoji is
\* toggled, its user is added to readBy) and leaves the other user's
\* reactions and read mark as they are stored: once both calls have answered
\* OK both effects are present.
C29_Reacted(msg, e) ==
  UNION {{msg.reactions[i].users[k] : k \in DOMAIN msg.reactions[i].users} :
           i \in {j \in DOMAIN msg.reactions : msg.reactions[j].emoji = e}}

C29_Read(msg) == {msg.readBy[i] : i \in DOMAIN msg.readBy}

C29_Save(p) ==
  LET r == proc[p]
      old == messages[r.m]
      new == messages'[r.m]
  IN (r.op \in {"react", "read"} /\ r.pc = "mSave" /\ proc'[p] # r
        /\ proc'[p].res = OK
        /\ \A i, j \in DOMAIN old.reactions :
             old.reactions[i].emoji = old.reactions[j].emoji => i = j)
       => /\ \A e \in Emojis :
               C29_Reacted(new, e) \ {r.u} = C29_Reacted(old, e) \ {r.u}
          /\ r.op = "react"
               => (r.u \in C29_Reacted(new, r.emoji))
                    = (r.u \notin C29_Reacted(old, r.emoji))
          /\ C29_Read(new) =
               IF r.op = "read" THEN C29_Read(old) \cup {r.u}
               ELSE C29_Read(old)

C30_Send(p) ==
  LET r == proc[p] IN
  (r.op = "send" /\ r.pc = "mSend" /\ proc'[p] # r /\ groups[r.g].exists
     /\ r.replyTo # 0
     /\ (~messages[r.replyTo].exists \/ messages[r.replyTo].groupId # r.g))
    => /\ proc'[p].pc = "done" /\ proc'[p].res = BadRequest
       /\ UNCHANGED messages

C30_RepliesStayInTheGroup ==
  [][/\ \A p \in Procs : C30_Send(p)
     /\ \A m \in MsgIds :
          (messages'[m].exists /\ messages'[m].replyTo # 0)
            => /\ messages'[messages'[m].replyTo].exists
               /\ messages'[messages'[m].replyTo].groupId = messages'[m].groupId]_vars

\* A reply is stored in one group, and a send to the other group with the
\* replyTo of a message of the first has been answered BadRequest.
C30_Witness ==
  LET r == proc[1] IN
  /\ r.pc = "done" /\ r.op = "send" /\ r.res = BadRequest
  /\ r.replyTo # 0 /\ messages[r.replyTo].exists
  /\ messages[r.replyTo].groupId # r.g
  /\ \E m \in Stored : messages[m].replyTo # 0 /\ messages[m].groupId # r.g

\* C31: send, react and markRead take effect only for a caller who holds an
\* ACTIVE membership in the group of the message: no step of such a request
\* of any other user changes a message, and the request does not answer OK.
C31_Gated(p) ==
  LET r == proc[p]
      g == IF r.op = "send" THEN r.g ELSE messages[r.m].groupId
  IN (r.op \in {"send", "react", "read"} /\ InFlight(p) /\ proc'[p] # r
        /\ (r.op = "send" \/ messages[r.m].exists)
        /\ members[g][r.u].status # ACTIVE)
       => /\ UNCHANGED messages
          /\ proc'[p].pc = "done" => proc'[p].res # OK

C31_ChatIsForActiveMembers == [][\A p \in Procs : C31_Gated(p)]_vars

\* C32: a listing of a group's messages that is answered returns exactly the
\* non-deleted messages of the group that satisfy every cursor given (id below
\* before, id above after): the page-th block of limit messages in newest-first
\* order, returned oldest-first; a limit above 100 is not answered with a list.
C32_Matching(g, before, after) ==
  {m \in Stored : /\ messages[m].groupId = g
                  /\ ~messages[m].isDeleted
                  /\ (before # 0 => m < before)
                  /\ (after # 0 => m > after)}

C32_List(p) ==
  LET r == proc[p]
  IN (r.op = "messages" /\ Completed(p))
       => /\ proc'[p].res = OK
             => proc'[p].list =
                  Reverse(Block(NewestFirst(C32_Matching(r.g, r.before, r.after)),
                                r.page, r.limit))
          /\ r.limit > LimitMax => proc'[p].res # OK

C32_ListReturnsThePage == [][\A p \in Procs : C32_List(p)]_vars

\* C33: no listing answers with a soft-deleted message: neither the messages
\* listed by getMessages, getPinnedMessages and searchMessages nor the
\* messages they carry as replyTo are deleted when the answer is given; and
\* getPinnedMessages lists exactly the group's pinned, non-deleted messages.
C33_Returned(r) ==
  {r.list[i] : i \in 1..Len(r.list)} \cup
  {r.quoted[i] : i \in {j \in 1..Len(r.quoted) : r.quoted[j] # 0}}

C33_Listed(p) ==
  LET r == proc'[p]
  IN (proc[p].op \in {"messages", "pinned", "msearch"} /\ Completed(p)
        /\ r.res = OK)
       => /\ \A m \in C33_Returned(r) : ~messages[m].isDeleted
          /\ r.op = "pinned"
               => /\ {r.list[i] : i \in 1..Len(r.list)} =
                       {m \in Stored : /\ messages[m].groupId = r.g
                                       /\ messages[m].isPinned
                                       /\ ~messages[m].isDeleted}
                  /\ Len(r.list) = Cardinality({r.list[i] : i \in 1..Len(r.list)})

C33_NoDeletedMessageIsListed == [][\A p \in Procs : C33_Listed(p)]_vars

\* C34: when deleteGroup has completed, the deleted group's currentMemberCount
\* equals its number of ACTIVE membership rows, which is 0.
C34_Deleted(p) ==
  LET g == proc[p].g
      active == {u \in Users : members'[g][u].status = ACTIVE}
  IN (proc[p].op = "delete" /\ Completed(p) /\ proc'[p].res = OK)
       => /\ active = {}
          /\ groups'[g].currentMemberCount = Cardinality(active)

C34_CounterSurvivesDeleteGroup == [][\A p \in Procs : C34_Deleted(p)]_vars

\* C35: in every reachable state, with updateGroup lowering the capacity
\* while joins and addMembers run on the same group, the capacity of a group
\* is at least its currentMemberCount.
C35_CapacityCoversCount ==
  \A g \in GroupIds :
    groups[g].exists => groups[g].capacity >= groups[g].currentMemberCount

\* C36: in every reachable state, with deleteGroup running while joins and
\* addMembers run on the same group, a soft-deleted group has no ACTIVE
\* membership row.
C36_DeletedGroupHasNoActiveRow ==
  \A g \in GroupIds :
    (groups[g].exists /\ ~groups[g].isActive) => ActiveCount(g) = 0

\* C37: in every reachable state each membership row has role leader or
\* member and status active or inactive, the row with role leader is the one
\* of the group's leader and every group has it, and inactive rows exist only
\* in soft-deleted groups; so no join or addMember on a group that is active
\* meets a banned row or reactivates an existing row.
C37_Rows ==
  \A g \in GroupIds :
    /\ groups[g].exists => members[g][groups[g].leader] # NoRow
    /\ \A u \in Users :
         members[g][u] # NoRow
           => /\ groups[g].exists
              /\ members[g][u].role \in {LEADER, MEMBER}
              /\ members[g][u].status \in {ACTIVE, INACTIVE}
              /\ members[g][u].role = LEADER <=> u = groups[g].leader
              /\ members[g][u].status = INACTIVE => ~groups[g].isActive

C37_Branches(p) ==
  LET r == proc[p]
      row == members[r.g][r.t]
  IN (/\ \/ r.op = "join" /\ r.pc = "jMem"
         \/ r.op \in {"mjoin", "add"} /\ r.pc = "tRead"
      /\ proc'[p] # r
      /\ groups[r.g].isActive)
       => /\ row.status # BANNED
          /\ proc'[p].pc = "wMem" => proc'[p].mw = "create"

C38_GuardsAgree ==
  \A g \in GroupIds, u \in Users :
    IsLeaderOrAdminPM(g, u) = IsLeaderOrAdminGA(g, u)

\* A group with its leader, an active admin and an active plain member: the
\* guards let the first two pass and refuse the third.
C38_Witness ==
  \E g \in GroupIds, a \in Users, u \in Users :
    /\ groups[g].exists /\ groups[g].leader \notin {a, u}
    /\ members[g][a] = [role |-> ADMIN, status |-> ACTIVE]
    /\ members[g][u] = [role |-> MEMBER, status |-> ACTIVE]
    /\ IsLeaderOrAdminGA(g, groups[g].leader) = "next"
    /\ IsLeaderOrAdminGA(g, a) = "next"
    /\ IsLeaderOrAdminGA(g, u) = Forbidden

\* C39: the pin limit counts the non-deleted messages only: while fewer than
\* five non-deleted messages of a group are pinned, the leader's request to
\* pin an unpinned, non-deleted message of the group is answered OK and pins
\* the message.
C39_LivePinned(g) ==
  {m \in Stored : /\ messages[m].groupId = g
                  /\ messages[m].isPinned
                  /\ ~messages[m].isDeleted}

C39_Pin(p) ==
  LET r == proc[p]
      msg == messages[r.m]
  IN (/\ r.op = "pin" /\ Completed(p)
      /\ msg.exists /\ groups[msg.groupId].leader = r.u
      /\ ~msg.isPinned /\ ~msg.isDeleted
      /\ Cardinality(C39_LivePinned(msg.groupId)) < MaxPinned)
       => /\ proc'[p].res = OK
          /\ messages'[r.m].isPinned

C39_DeletedPinsFreeTheirSlot == [][\A p \in Procs : C39_Pin(p)]_vars

\* C40: a message is deleted exactly when its deletedBy and deletedAt are
\* set, and a softDelete of a message that is already deleted changes neither
\* deletedBy nor deletedAt.
C40_AuditSet(msg) ==
  msg.isDeleted <=> (msg.deletedBy # 0 /\ msg.deletedAt # NoDate)

C40_Again(p) ==
  LET r == proc[p]
  IN (r.op = "softDelete" /\ InFlight(p) /\ proc'[p] # r
        /\ messages[r.m].isDeleted)
       => /\ messages'[r.m].deletedBy = messages[r.m].deletedBy
          /\ messages'[r.m].deletedAt = messages[r.m].deletedAt

C40_DeletionAuditIsWriteOnce ==
  /\ [](\A m \in MsgIds : C40_AuditSet(messages[m]))
  /\ [][\A p \in Procs : C40_Again(p)]_vars

====
